---- MODULE Spec2Model ----
(***************************************************************************)
(* Model of the session observability and lifecycle engine of              *)
(* workspace-manager: the session table of AppState with its two indices,  *)
(* the handlers of the UI loop, the notify listener, the Claude and Kiro   *)
(* pollers and the bounded event channel between them.                     *)
(*                                                                         *)
(* Conventions.  Rust vectors are 0-based, TLA+ sequences are 1-based:     *)
(* every index of the model (workspace_index, session index) is the Rust   *)
(* index plus one.  A path is the sequence of its characters.  An external *)
(* id "claude:<uuid>" is the tuple <<"claude", uuid>> and                  *)
(* "kiro:<path>:<conv>" is <<"kiro", path, conv>>, so that the prefix test *)
(* of the code is a test of the first component.                           *)
(***************************************************************************)
EXTENDS Integers, Sequences, FiniteSets, TLC

VARIABLES
    workspaces,             \* AppState.workspaces: project_path of each Workspace
    sessions,               \* AppState.sessions
    session_map,            \* AppState.session_map: external_id -> session index
    sessions_by_workspace,  \* AppState.sessions_by_workspace: workspace index -> session indices
    tree_items,             \* AppState.tree_items: the rows of the tree view
    registered_path,        \* history: the workspace path each session was added under
    last_op,                \* history: the handler that ran last, with its input and result
    panicked,               \* the UI thread panicked in a handler: run_app is gone
    ps_table,               \* the operating system's process table: pid -> process
    transcripts,            \* the <uuid>.jsonl files of the project directory: uuid -> mtime
    running_processes,      \* run_logwatch: running_processes of the Claude tick
    emitted,                \* the session ids the matching loop of the tick sent events for
    tick_pc,                \* position of the Claude tick: "sleep", "ps", "matched"
    chan,                   \* the events in the notify channel, oldest first
    sent,                   \* history: the events sent into the channel, in send order
    applied,                \* history: the events handle_notify_event was called with
    ui_pc,                  \* position of the run_app loop: "drain", "tick", "key"
    workspace_watch,        \* the value of the workspace watch channel
    prev_active_sessions,   \* per poller: prev_active_sessions
    current_active_sessions, \* per poller: current_active_sessions of the tick under way
    outbox,                 \* per poller: the events of the tick under way not yet sent
    ticks,                  \* number of poller ticks so far
    tick_prev,              \* history, per poller: ids a status was emitted for one tick ago
    tick_matched,           \* history, per poller: ids matched on the latest tick
    tick_events,            \* history, per poller: the events the latest tick emits
    tick_failed,            \* history, per poller: the latest tick's fetch failed
    client_log,             \* history: the messages send_notification returned Ok for
    accept_queue,           \* connections written by clients and not yet accepted
    conn_tasks,             \* the spawned handle_connection tasks that have not sent yet
    jsonl_lines,            \* the lines of the transcript tail handed to parse_jsonl_tail
    jsonl_state,            \* the JsonlSessionState parse_jsonl_tail returned for them
    kiro_history,           \* the history of a conversation value of the Kiro database
    kiro_status,            \* what parse_conversation_value returned for it
    collapsed_repos,        \* AppState.collapsed_repos: the repo keys of the collapsed groups
    expanded_remote_branches, \* AppState.expanded_remote_branches: repo keys
    selected_index,         \* AppState.selected_index: the focused row of tree_items
    list_display_mode,      \* AppState.list_display_mode
    branch_filter,          \* AppState.branch_filter
    manager,                \* the WorktreeManager: its configuration and the branches git lists
    ui_op,                  \* history: the key handler that ran last and the row it acted on
    mux,                    \* the multiplexer: the backend, the session, its windows
    calls,                  \* the open_workspace_window calls: position, result, history
    worktree,               \* a create_worktree call: its inputs, position, git commands, result
    scanned,                \* the directories a scan found: name, .git, repo_name, repo key
    rt                      \* the tokio runtime at shutdown: run_app, run_logwatch, the tasks

aggVars == <<workspaces, sessions, session_map, sessions_by_workspace, tree_items,
            registered_path, last_op, panicked>>
tickVars == <<ps_table, transcripts, running_processes, emitted, tick_pc>>
chanVars == <<chan, sent, applied, ui_pc>>
pollVars == <<workspace_watch, prev_active_sessions, current_active_sessions, outbox, ticks,
              tick_prev, tick_matched, tick_events, tick_failed>>
notifyVars == <<client_log, accept_queue, conn_tasks>>
treeVars == <<collapsed_repos, expanded_remote_branches, selected_index, list_display_mode,
             branch_filter, manager, ui_op>>
gitVars == <<worktree, scanned, rt>>
muxVars == <<mux, calls, gitVars>>
extVars == <<jsonl_lines, jsonl_state, kiro_history, kiro_status, treeVars, muxVars>>
vars == <<aggVars, tickVars, chanVars, pollVars, notifyVars, extVars>>

Pollers == {"claude", "kiro"}

None == "None"

----------------------------------------------------------------------------
(* Paths *)

\* $HOME of the process
Home == <<"/", "h">>

\* byte values of the characters used in paths (String::cmp compares bytes)
CharOrd == [c \in {"/", "a", "b", "h", "~"} |->
              CASE c = "/" -> 47 [] c = "a" -> 97 [] c = "b" -> 98
                [] c = "h" -> 104 [] c = "~" -> 126]

RECURSIVE PathLess(_, _)
\* lexicographic byte order of two strings (a.project_path.cmp(&b.project_path) == Less)
PathLess(p, q) ==
    IF q = <<>> THEN FALSE
    ELSE IF p = <<>> THEN TRUE
    ELSE IF CharOrd[Head(p)] # CharOrd[Head(q)] THEN CharOrd[Head(p)] < CharOrd[Head(q)]
    ELSE PathLess(Tail(p), Tail(q))

RECURSIVE SortedByPath(_)
\* the paths of S in ascending order (workspaces.sort_by project_path)
SortedByPath(S) ==
    IF S = {} THEN <<>>
    ELSE LET m == CHOOSE p \in S : \A q \in S : ~PathLess(q, p)
         IN  <<m>> \o SortedByPath(S \ {m})

\* the checkouts the scan can find below $HOME (absolute, as PathBuf::join builds them)
PathA == <<"/", "h", "/", "a">>
PathB == <<"/", "h", "/", "b">>
ScanPaths == {PathA, PathB}

\* project paths a notify client or an observer can carry
TildeA == <<"~", "/", "a">>
SlashA == <<"/", "h", "/", "a", "/">>
ProjectPaths == ScanPaths \cup {TildeA, SlashA}

\* normalize_path that also trims a trailing slash
normalize_path_wrong_trim(path) ==
    LET e == IF Len(path) >= 2 /\ path[1] = "~" /\ path[2] = "/"
             THEN Home \o SubSeq(path, 2, Len(path)) ELSE path
    IN  IF Len(e) > 1 /\ e[Len(e)] = "/" THEN SubSeq(e, 1, Len(e) - 1) ELSE e

\* normalize_path of app/state.rs: expands a leading "~/" and nothing else
normalize_path(path) ==
    IF Len(path) >= 2 /\ path[1] = "~" /\ path[2] = "/"
    THEN Home \o SubSeq(path, 2, Len(path))
    ELSE path

----------------------------------------------------------------------------
(* Session model *)

Statuses == {"Idle", "Working", "NeedsInput", "Success", "Error", "Disconnected"}
Tools == {"Claude", "Kiro", "OpenCode", "Codex"}

\* Option<String> for summaries and messages.  A string is the sequence of the
\* UTF-8 byte lengths of its characters (1 for ASCII, 3 for a CJK character)
NoneStr == [some |-> FALSE, text |-> <<>>]
Some(text) == [some |-> TRUE, text |-> text]

RECURSIVE byte_len(_)
\* str::len: the length in bytes
byte_len(text) == IF text = <<>> THEN 0 ELSE Head(text) + byte_len(Tail(text))

\* str::is_char_boundary
is_char_boundary(text, index) ==
    \E k \in 0..Len(text) : byte_len(SubSeq(text, 1, k)) = index

\* &s[..index] for an index that is a character boundary
slice_to(text, index) ==
    SubSeq(text, 1, CHOOSE k \in 0..Len(text) : byte_len(SubSeq(text, 1, k)) = index)

\* SessionStatus::display_summary panics: &s[..47] with byte 47 inside a character
display_summary_panics(summary) ==
    /\ summary.some
    /\ byte_len(summary.text) > 50
    /\ ~is_char_boundary(summary.text, 47)

\* SessionStatus::display_summary when it returns
display_summary(summary) ==
    IF ~summary.some THEN NoneStr
    ELSE IF byte_len(summary.text) > 50
    THEN Some(slice_to(summary.text, 47) \o <<1, 1, 1>>)
    ELSE summary

\* Session::new
NewSession(external_id, workspace_index, tool) ==
    [external_id |-> external_id, workspace_index |-> workspace_index,
     tool |-> tool, status |-> "Idle", summary |-> NoneStr, pane_id |-> None]

\* Session::is_active
is_active(s) == s.status # "Disconnected"

\* Session::disconnect that also forgets the summary
disconnect_clear_summary(s) == [s EXCEPT !.status = "Disconnected", !.summary = NoneStr]

\* Session::disconnect
disconnect(s) == [s EXCEPT !.status = "Disconnected"]

\* Session::update_status
update_status(s, status, message) ==
    [s EXCEPT !.status = status, !.summary = IF message.some THEN message ELSE @]

\* logwatch StatusState -> SessionStatus, as Session::update_from_logwatch_status maps it
FromStatusState(st) ==
    CASE st = "Working" -> "Working"
      [] st = "Waiting" -> "NeedsInput"
      [] st = "Completed" -> "Success"
      [] st = "Error" -> "Error"
      [] st = "Idle" -> "Idle"
      [] st = "Disconnected" -> "Disconnected"

StatusStates == {"Working", "Waiting", "Completed", "Error", "Idle", "Disconnected"}

\* Session::update_from_logwatch_status that leaves a Disconnected session as it is
update_from_logwatch_status_keep_disconnected(s, st, summary) ==
    IF s.status = "Disconnected" THEN s
    ELSE [s EXCEPT !.summary = display_summary(summary), !.status = FromStatusState(st)]

\* Session::update_from_logwatch_status when display_summary returns
update_from_logwatch_status(s, st, summary) ==
    [s EXCEPT !.summary = display_summary(summary), !.status = FromStatusState(st)]

----------------------------------------------------------------------------
(* AppState: the session table and its indices.  The operators take and    *)
(* return the record of these fields.                                     *)

AppState == [workspaces |-> workspaces, sessions |-> sessions,
             session_map |-> session_map,
             sessions_by_workspace |-> sessions_by_workspace, tree_items |-> tree_items,
             registered_path |-> registered_path, panicked |-> panicked,
             collapsed_repos |-> collapsed_repos,
             expanded_remote_branches |-> expanded_remote_branches,
             selected_index |-> selected_index, list_display_mode |-> list_display_mode,
             branch_filter |-> branch_filter]

\* AppState::new() with the workspace list set
NewState(paths) ==
    [workspaces |-> paths, sessions |-> <<>>, session_map |-> <<>>,
     sessions_by_workspace |-> <<>>, tree_items |-> <<>>, registered_path |-> <<>>,
     panicked |-> FALSE, collapsed_repos |-> {}, expanded_remote_branches |-> {},
     selected_index |-> 1, list_display_mode |-> "Worktrees", branch_filter |-> NoneStr]

\* HashMap::insert
MapInsert(m, k, v) == [x \in DOMAIN m \cup {k} |-> IF x = k THEN v ELSE m[x]]

\* AppState::add_session taking the session index after the push
add_session_index_after_push(st, session) ==
    LET workspace_index == session.workspace_index
        session_index == Len(st.sessions) + 2
        bucket == IF workspace_index \in DOMAIN st.sessions_by_workspace
                  THEN st.sessions_by_workspace[workspace_index] ELSE <<>>
    IN  [st EXCEPT
            !.sessions = Append(st.sessions, session),
            !.session_map = MapInsert(st.session_map, session.external_id, session_index),
            !.sessions_by_workspace =
                MapInsert(st.sessions_by_workspace, workspace_index, Append(bucket, session_index)),
            !.registered_path = Append(st.registered_path, st.workspaces[workspace_index])]

\* AppState::add_session
add_session(st, session) ==
    LET workspace_index == session.workspace_index
        session_index == Len(st.sessions) + 1
        bucket == IF workspace_index \in DOMAIN st.sessions_by_workspace
                  THEN st.sessions_by_workspace[workspace_index] ELSE <<>>
    IN  [st EXCEPT
            !.sessions = Append(st.sessions, session),
            !.session_map = MapInsert(st.session_map, session.external_id, session_index),
            !.sessions_by_workspace =
                MapInsert(st.sessions_by_workspace, workspace_index, Append(bucket, session_index)),
            !.registered_path = Append(st.registered_path, st.workspaces[workspace_index])]

\* the elements of a sequence
Range(seq) == {seq[k] : k \in 1..Len(seq)}

\* Vec::iter().filter(..).collect() over a sequence of indices
RECURSIVE FilterSeq(_, _)
FilterSeq(seq, keep) ==
    IF seq = <<>> THEN <<>>
    ELSE IF keep[Head(seq)] THEN <<Head(seq)>> \o FilterSeq(Tail(seq), keep)
    ELSE FilterSeq(Tail(seq), keep)

\* AppState::sessions_for_workspace without the is_active filter
sessions_for_workspace_unfiltered(st, workspace_index) ==
    IF workspace_index \in DOMAIN st.sessions_by_workspace
    THEN st.sessions_by_workspace[workspace_index]
    ELSE <<>>

\* AppState::sessions_for_workspace
sessions_for_workspace(st, workspace_index) ==
    IF workspace_index \in DOMAIN st.sessions_by_workspace
    THEN LET indices == st.sessions_by_workspace[workspace_index]
             keep == [idx \in {indices[k] : k \in 1..Len(indices)} |->
                         idx \in 1..Len(st.sessions) /\ is_active(st.sessions[idx])]
         IN  FilterSeq(indices, keep)
    ELSE <<>>

\* AppState::workspace_aggregate_status with NeedsInput taking precedence over Working
workspace_aggregate_status_needs_input_first(st, workspace_index) ==
    LET session_indices == sessions_for_workspace(st, workspace_index)
        found == Range(session_indices) \cap (1..Len(st.sessions))
    IN  IF session_indices = <<>> THEN "Disconnected"
        ELSE IF \E idx \in found : st.sessions[idx].status = "NeedsInput" THEN "NeedsInput"
        ELSE IF \E idx \in found : st.sessions[idx].status = "Working" THEN "Working"
        ELSE IF \E idx \in found : st.sessions[idx].status \in {"Idle", "Success"} THEN "Idle"
        ELSE "Disconnected"

\* AppState::workspace_aggregate_status
workspace_aggregate_status(st, workspace_index) ==
    LET session_indices == sessions_for_workspace(st, workspace_index)
        found == Range(session_indices) \cap (1..Len(st.sessions))
        has_working == \E idx \in found : st.sessions[idx].status = "Working"
        has_needs_input == \E idx \in found : st.sessions[idx].status = "NeedsInput"
        has_idle == \E idx \in found : st.sessions[idx].status \in {"Idle", "Success"}
    IN  IF session_indices = <<>> THEN "Disconnected"
        ELSE IF has_working THEN "Working"
        ELSE IF has_needs_input THEN "NeedsInput"
        ELSE IF has_idle THEN "Idle"
        ELSE "Disconnected"

\* AppState::get_repo_key for a checkout that is no worktree and whose name
\* holds no "__": the repo_name, which is the directory name
get_repo_key(path) ==
    LET slashes == {k \in 1..Len(path) : path[k] = "/"}
        last == IF slashes = {} THEN 0 ELSE CHOOSE k \in slashes : \A j \in slashes : j <= k
    IN  SubSeq(path, last + 1, Len(path))

\* rebuild_tree() passes no WorktreeManager
NoManager == [present |-> FALSE]

\* Workspace.branch of the checkout at a path, as the scan read it from git:
\* the checkout /h/a is on branch f, every other one on m
branch(path) == IF path = <<"/", "h", "/", "a">> THEN <<"f">> ELSE <<"m">>

\* str::to_lowercase, over the letters branch names and filters are written in
to_lowercase(text) ==
    [k \in 1..Len(text) |-> IF text[k] = "F" THEN "f"
                            ELSE IF text[k] = "G" THEN "g" ELSE text[k]]

\* str::contains
contains(text, pattern) ==
    \E k \in 0..(Len(text) - Len(pattern)) : SubSeq(text, k + 1, k + Len(pattern)) = pattern

\* rebuild_tree_with_manager: the closure matches_filter
matches_filter(st, b) ==
    IF st.branch_filter.some /\ st.branch_filter.text # <<>>
    THEN contains(to_lowercase(b), to_lowercase(st.branch_filter.text))
    ELSE TRUE

\* WorktreeManager::list_local_branches(..).unwrap_or_default()
list_local_branches(mgr, repo_path) ==
    IF repo_path \in DOMAIN mgr.local THEN mgr.local[repo_path] ELSE <<>>

\* WorktreeManager::list_remote_branches(..).unwrap_or_default()
list_remote_branches(mgr, repo_path) ==
    IF repo_path \in DOMAIN mgr.remote THEN mgr.remote[repo_path] ELSE <<>>

\* rebuild_tree_with_manager: existing_branches of a group
existing_branches(st, indices) == {branch(st.workspaces[indices[k]]) : k \in 1..Len(indices)}

\* rebuild_tree_with_manager: local_branches of a group
local_branches(st, mgr, repo_path, indices) ==
    IF st.list_display_mode # "Worktrees" /\ mgr.present
    THEN LET listed == list_local_branches(mgr, repo_path)
             keep == [b \in Range(listed) |->
                         b \notin existing_branches(st, indices) /\ matches_filter(st, b)]
         IN  FilterSeq(listed, keep)
    ELSE <<>>

\* rebuild_tree_with_manager: remote_branches of a group, capped at
\* max_remote_branches unless that is 0
remote_branches(st, mgr, repo_path, indices) ==
    IF st.list_display_mode = "WithBranches" /\ mgr.present
    THEN LET local == local_branches(st, mgr, repo_path, indices)
             listed == list_remote_branches(mgr, repo_path)
             keep == [b \in Range(listed) |-> /\ b \notin existing_branches(st, indices)
                                              /\ b \notin Range(local)
                                              /\ matches_filter(st, b)]
             branches == FilterSeq(listed, keep)
             max_branches == mgr.max_remote_branches
         IN  IF max_branches > 0 /\ Len(branches) > max_branches
             THEN SubSeq(branches, 1, max_branches)
             ELSE branches
    ELSE <<>>

\* TreeItem::Session rows of one worktree
SessionRows(indices, parent_last) ==
    [k \in 1..Len(indices) |->
        [kind |-> "Session", session_index |-> indices[k], is_last |-> (k = Len(indices)),
         parent_is_last |-> parent_last]]

RECURSIVE WorktreeRows(_, _, _, _)
\* rebuild_tree_with_manager: the Worktree row of each workspace of a group from
\* position k on, each followed by the rows of its sessions_for_workspace
WorktreeRows(st, indices, k, has_branches) ==
    IF k > Len(indices) THEN <<>>
    ELSE LET is_last_in_group == (k = Len(indices)) /\ ~has_branches
         IN  <<[kind |-> "Worktree", workspace_index |-> indices[k],
                is_last |-> is_last_in_group]>>
                 \o SessionRows(sessions_for_workspace(st, indices[k]), is_last_in_group)
                 \o WorktreeRows(st, indices, k + 1, has_branches)

\* TreeItem::Branch rows whose last one is flagged whether or not a
\* RemoteBranchGroup follows
BranchRows_last_of_its_list(names, is_local, repo_path, has_remote_branches) ==
    [k \in 1..Len(names) |->
        [kind |-> "Branch", name |-> names[k], is_local |-> is_local, repo_path |-> repo_path,
         is_last |-> (k = Len(names))]]

\* TreeItem::Branch rows: the local ones of a group, or the remote ones of its
\* RemoteBranchGroup
BranchRows(names, is_local, repo_path, has_remote_branches) ==
    [k \in 1..Len(names) |->
        [kind |-> "Branch", name |-> names[k], is_local |-> is_local, repo_path |-> repo_path,
         is_last |-> (k = Len(names)) /\ ~has_remote_branches]]

\* rebuild_tree_with_manager listing the remote branches of a collapsed
\* RemoteBranchGroup too
RemoteRows_always_listed(names, repo_path, remote_expanded) ==
    IF names = <<>> THEN <<>>
    ELSE <<[kind |-> "RemoteBranchGroup", repo_path |-> repo_path,
            expanded |-> remote_expanded, count |-> Len(names), is_last |-> TRUE]>>
             \o BranchRows(names, FALSE, repo_path, FALSE)

\* rebuild_tree_with_manager: the RemoteBranchGroup row of a group and, if it
\* is expanded, its Branch rows
RemoteRows(names, repo_path, remote_expanded) ==
    IF names = <<>> THEN <<>>
    ELSE <<[kind |-> "RemoteBranchGroup", repo_path |-> repo_path,
            expanded |-> remote_expanded, count |-> Len(names), is_last |-> TRUE]>>
             \o (IF remote_expanded THEN BranchRows(names, FALSE, repo_path, FALSE) ELSE <<>>)

RECURSIVE AscendingSeq(_)
\* the numbers of S in ascending order
AscendingSeq(S) ==
    IF S = {} THEN <<>>
    ELSE LET m == CHOOSE x \in S : \A y \in S : x <= y
         IN  <<m>> \o AscendingSeq(S \ {m})

\* rebuild_tree_with_manager: repo_groups[repo_key]
repo_group(st, repo_key) ==
    AscendingSeq({i \in 1..Len(st.workspaces) : get_repo_key(st.workspaces[i]) = repo_key})

RECURSIVE GroupRows(_, _, _)
\* rebuild_tree_with_manager: the rows of the groups of repo_keys
GroupRows(st, mgr, repo_keys) ==
    IF repo_keys = <<>> THEN <<>>
    ELSE LET repo_key == Head(repo_keys)
             indices == repo_group(st, repo_key)
             is_expanded == repo_key \notin st.collapsed_repos
             repo_path == st.workspaces[indices[1]]
             local == local_branches(st, mgr, repo_path, indices)
             remote == remote_branches(st, mgr, repo_path, indices)
             remote_expanded == repo_key \in st.expanded_remote_branches
         IN  <<[kind |-> "RepoGroup", name |-> repo_key, path |-> repo_key,
                expanded |-> is_expanded, worktree_count |-> Len(indices)]>>
                 \o (IF is_expanded
                     THEN WorktreeRows(st, indices, 1, local # <<>> \/ remote # <<>>)
                              \o BranchRows(local, TRUE, repo_path, remote # <<>>)
                              \o RemoteRows(remote, repo_path, remote_expanded)
                     ELSE <<>>)
                 \o GroupRows(st, mgr, Tail(repo_keys))

\* AppState::rebuild_tree_with_manager
rebuild_tree_with_manager(st, mgr) ==
    [st EXCEPT !.tree_items =
        GroupRows(st, mgr, SortedByPath({get_repo_key(st.workspaces[i]) :
                                            i \in 1..Len(st.workspaces)}))]

\* AppState::rebuild_tree
rebuild_tree(st) == rebuild_tree_with_manager(st, NoManager)

\* AppState::remove_session
remove_session(st, external_id) ==
    IF external_id \in DOMAIN st.session_map /\ st.session_map[external_id] \in 1..Len(st.sessions)
    THEN [st EXCEPT !.sessions[st.session_map[external_id]] = disconnect(@)]
    ELSE st

\* AppState::update_session_status
update_session_status(st, external_id, status, message) ==
    IF external_id \in DOMAIN st.session_map /\ st.session_map[external_id] \in 1..Len(st.sessions)
    THEN [st EXCEPT !.sessions[st.session_map[external_id]] = update_status(@, status, message)]
    ELSE st

\* AppState::find_workspace_by_path: position of the first workspace with the
\* same normalised path; 0 stands for Option::None (indices start at 1)
find_workspace_by_path(st, project_path) ==
    LET normalized == normalize_path(project_path)
        hits == {i \in 1..Len(st.workspaces) : normalize_path(st.workspaces[i]) = normalized}
    IN  IF hits = {} THEN 0 ELSE CHOOSE i \in hits : \A j \in hits : i <= j

\* AppState::register_session with the lookup of an existing session left out
register_session_no_lookup(st, external_id, project_path, tool, pane_id) ==
    LET workspace_index == find_workspace_by_path(st, project_path)
    IN  IF workspace_index = 0 THEN [st |-> st, result |-> 0]
        ELSE [st |-> add_session(st, [NewSession(external_id, workspace_index, tool)
                                        EXCEPT !.pane_id = pane_id]),
              result |-> Len(st.sessions) + 1]

\* AppState::register_session: [st |-> the state afterwards, result |-> the
\* session index returned, 0 for the None of the `?` early return]
register_session(st, external_id, project_path, tool, pane_id) ==
    LET workspace_index == find_workspace_by_path(st, project_path)
    IN  IF workspace_index = 0 THEN [st |-> st, result |-> 0]
        ELSE IF external_id \in DOMAIN st.session_map
        THEN LET session_index == st.session_map[external_id]
             IN  [st |-> IF session_index \in 1..Len(st.sessions)
                         THEN [st EXCEPT !.sessions[session_index] =
                                   [@ EXCEPT !.status = "Idle", !.pane_id = pane_id]]
                         ELSE st,
                  result |-> session_index]
        ELSE [st |-> add_session(st, [NewSession(external_id, workspace_index, tool)
                                        EXCEPT !.pane_id = pane_id]),
              result |-> Len(st.sessions) + 1]

\* AppState::get_session_by_external_id(..).is_none()
session_is_unknown(st, external_id) ==
    ~(external_id \in DOMAIN st.session_map /\ st.session_map[external_id] \in 1..Len(st.sessions))

\* the tool handle_notify_event infers from the prefix of an external id
ToolOfPrefix(external_id) == IF external_id[1] = "kiro" THEN "Kiro" ELSE "Claude"

----------------------------------------------------------------------------
(* Events of the UI loop (AppEvent) and their handler *)

SessionRegister(e, p, tool, pane) ==
    [type |-> "SessionRegister", external_id |-> e, project_path |-> p, tool |-> tool,
     pane_id |-> pane, status |-> None, summary |-> NoneStr]
SessionUpdate(e, status, message) ==
    [type |-> "SessionUpdate", external_id |-> e, project_path |-> None, tool |-> None,
     pane_id |-> None, status |-> status, summary |-> message]
SessionUnregister(e) ==
    [type |-> "SessionUnregister", external_id |-> e, project_path |-> None, tool |-> None,
     pane_id |-> None, status |-> None, summary |-> NoneStr]
SessionStatusAnalyzed(e, p, status, summary) ==
    [type |-> "SessionStatusAnalyzed", external_id |-> e, project_path |-> p, tool |-> None,
     pane_id |-> None, status |-> status, summary |-> summary]

\* handle_notify_event, SessionStatusAnalyzed arm, in which a session that has
\* just been auto-registered does not get the reported status
handle_status_analyzed_register_only(st, event) ==
    LET registered == register_session(st, event.external_id, event.project_path,
                                       ToolOfPrefix(event.external_id), None)
    IN  IF session_is_unknown(st, event.external_id)
        THEN (IF registered.result # 0 THEN rebuild_tree(registered.st) ELSE registered.st)
        ELSE IF display_summary_panics(event.summary) THEN [st EXCEPT !.panicked = TRUE]
        ELSE [st EXCEPT !.sessions[st.session_map[event.external_id]] =
                            update_from_logwatch_status(@, event.status, event.summary)]

\* handle_notify_event, SessionStatusAnalyzed arm
handle_status_analyzed(st, event) ==
    LET registered == register_session(st, event.external_id, event.project_path,
                                       ToolOfPrefix(event.external_id), None)
        st1 == IF session_is_unknown(st, event.external_id)
               THEN (IF registered.result # 0 THEN rebuild_tree(registered.st)
                     ELSE registered.st)
               ELSE st
    IN  IF session_is_unknown(st1, event.external_id) THEN st1
        ELSE IF display_summary_panics(event.summary) THEN [st1 EXCEPT !.panicked = TRUE]
        ELSE [st1 EXCEPT !.sessions[st1.session_map[event.external_id]] =
                            update_from_logwatch_status(@, event.status, event.summary)]

\* handle_notify_event: the state after the event
handle_notify_event(st, event) ==
    CASE event.type = "SessionRegister" ->
            LET registered == register_session(st, event.external_id, event.project_path,
                                               event.tool, event.pane_id)
            IN  IF registered.result # 0 THEN rebuild_tree(registered.st)
                ELSE registered.st
      [] event.type = "SessionUpdate" ->
            update_session_status(st, event.external_id, event.status, event.summary)
      [] event.type = "SessionUnregister" ->
            rebuild_tree(remove_session(st, event.external_id))
      [] event.type = "SessionStatusAnalyzed" ->
            handle_status_analyzed(st, event)
      [] OTHER -> st

\* the workspace the handler looked up for the event (0: no lookup or no match)
LookedUp(st, event) ==
    IF event.type = "SessionRegister"
       \/ (event.type = "SessionStatusAnalyzed" /\ session_is_unknown(st, event.external_id))
    THEN find_workspace_by_path(st, event.project_path)
    ELSE 0

----------------------------------------------------------------------------
(* scan_workspaces *)

\* AppState::scan_workspaces: the list is replaced by the sorted scan result
\* and the tree is rebuilt; sessions, session_map and sessions_by_workspace are
\* not touched
scan_workspaces(st, found) == rebuild_tree([st EXCEPT !.workspaces = SortedByPath(found)])

----------------------------------------------------------------------------
(* Specification Spec: the handlers of the UI loop on AppState, each event *)
(* drawn from the sets below.                                              *)

ExtIdClaude == <<"claude", "A">>
ExtIdKiro == <<"kiro", PathB, "K">>
ExtIds == {ExtIdClaude, ExtIdKiro}
\* the tool a register event names, the statuses a status event carries
RegisterTools == {"Claude"}
UpdateStatuses == {"Working", "NeedsInput", "Disconnected"}
\* the states an observer reports in this specification
ObservedStates == {"Working", "Idle", "Disconnected"}
\* the project paths of observer events: entries of a published workspace list
ObserverPaths == ScanPaths

Install(st) ==
    /\ workspaces' = st.workspaces
    /\ sessions' = st.sessions
    /\ session_map' = st.session_map
    /\ sessions_by_workspace' = st.sessions_by_workspace
    /\ tree_items' = st.tree_items
    /\ registered_path' = st.registered_path
    /\ panicked' = st.panicked

Handle(event) ==
    /\ ~panicked
    /\ \E st \in {handle_notify_event(AppState, event)} : Install(st)
    /\ last_op' = [type |-> event.type, external_id |-> event.external_id,
                   project_path |-> event.project_path,
                   status |-> event.status,
                   found |-> LookedUp(AppState, event),
                   was_known |-> ~session_is_unknown(AppState, event.external_id)]

\* the Claude tick is not part of this specification
TickParked ==
    /\ ps_table = <<>>
    /\ transcripts = <<>>
    /\ running_processes = <<>>
    /\ emitted = <<>>
    /\ tick_pc = "sleep"

\* the channel, the pollers and the notify listener are not part of this
\* specification either
ChanParked ==
    /\ chan = <<>>
    /\ sent = <<>>
    /\ applied = <<>>
    /\ ui_pc = "drain"

PollParked ==
    /\ workspace_watch = <<>>
    /\ prev_active_sessions = [p \in Pollers |-> {}]
    /\ current_active_sessions = [p \in Pollers |-> {}]
    /\ outbox = [p \in Pollers |-> <<>>]
    /\ ticks = 0
    /\ tick_prev = [p \in Pollers |-> {}]
    /\ tick_matched = [p \in Pollers |-> {}]
    /\ tick_events = [p \in Pollers |-> <<>>]
    /\ tick_failed = [p \in Pollers |-> FALSE]

NotifyParked ==
    /\ client_log = <<>>
    /\ accept_queue = <<>>
    /\ conn_tasks = {}

\* no key is pressed: the view fields keep the values of AppState::new(), and
\* rebuild_tree() is called without a WorktreeManager
TreeParked ==
    /\ collapsed_repos = {}
    /\ expanded_remote_branches = {}
    /\ selected_index = 1
    /\ list_display_mode = "Worktrees"
    /\ branch_filter = NoneStr
    /\ manager = [present |-> FALSE]
    /\ ui_op = [type |-> "new", kind |-> None, rebuilt |-> FALSE]

\* no worktree is created
RtParked == rt = [ui |-> "none"]

GitParked == worktree = [pc |-> "none"] /\ scanned = <<>> /\ RtParked

\* no workspace window is opened
MuxParked ==
    /\ GitParked
    /\ mux = [backend |-> None, session_exists |-> FALSE, windows |-> <<>>, at_start |-> <<>>,
              renamed |-> <<>>]
    /\ calls = <<>>

\* nor are the transcript parser and the other parts specified on their own
ExtParked ==
    /\ jsonl_lines = [read_start |-> 0, lines |-> <<>>]
    /\ jsonl_state = [parsed |-> FALSE]
    /\ kiro_history = <<>>
    /\ kiro_status = [parsed |-> FALSE]
    /\ TreeParked
    /\ MuxParked

\* run_tui: AppState::new() followed by the first scan_workspaces
Init ==
    /\ TickParked
    /\ ChanParked
    /\ PollParked
    /\ NotifyParked
    /\ ExtParked
    /\ \E found \in SUBSET ScanPaths : workspaces = SortedByPath(found)
    /\ sessions = <<>>
    /\ session_map = <<>>
    /\ sessions_by_workspace = <<>>
    /\ registered_path = <<>>
    /\ last_op = [type |-> "scan_workspaces", external_id |-> None, project_path |-> None,
                  status |-> None, found |-> 0, was_known |-> FALSE]
    /\ panicked = FALSE
    /\ tree_items = rebuild_tree(NewState(workspaces)).tree_items

\* handle_notify_event(SessionRegister)
Register ==
    /\ \E e \in ExtIds, p \in ProjectPaths, tool \in RegisterTools :
           Handle(SessionRegister(e, p, tool, None))
    /\ UNCHANGED <<tickVars, chanVars, pollVars, notifyVars, extVars>>

\* handle_notify_event(SessionUpdate)
UpdateStatus ==
    /\ \E e \in ExtIds, status \in UpdateStatuses : Handle(SessionUpdate(e, status, NoneStr))
    /\ UNCHANGED <<tickVars, chanVars, pollVars, notifyVars, extVars>>

\* handle_notify_event(SessionUnregister)
Unregister ==
    /\ \E e \in ExtIds : Handle(SessionUnregister(e))
    /\ UNCHANGED <<tickVars, chanVars, pollVars, notifyVars, extVars>>

\* handle_notify_event(SessionStatusAnalyzed)
ObserverStatus ==
    /\ \E e \in ExtIds, p \in ObserverPaths, status \in ObservedStates :
           Handle(SessionStatusAnalyzed(e, p, status, NoneStr))
    /\ UNCHANGED <<tickVars, chanVars, pollVars, notifyVars, extVars>>

\* handle_action(Action::Refresh): scan_workspaces
Refresh ==
    /\ \E found \in SUBSET ScanPaths :
           /\ Install(scan_workspaces(AppState, found))
           /\ last_op' = [type |-> "scan_workspaces", external_id |-> None,
                          project_path |-> None, status |-> None, found |-> 0,
                          was_known |-> FALSE]
    /\ UNCHANGED <<tickVars, chanVars, pollVars, notifyVars, extVars>>

Next == Register \/ UpdateStatus \/ Unregister \/ ObserverStatus \/ Refresh

Spec == Init /\ [][Next]_vars

----------------------------------------------------------------------------
(* Properties of the session table, checked under Spec *)

\* number of positions of seq that hold x
Occurrences(seq, x) == Cardinality({k \in 1..Len(seq) : seq[k] = x})

\* the last handler looked a workspace up by path (register, or observer status
\* of an id that was not in the table)
LookupDone ==
    \/ last_op.type = "SessionRegister"
    \/ (last_op.type = "SessionStatusAnalyzed" /\ ~last_op.was_known)

\* a path with its leading "~/" replaced by $HOME
TildeExpanded(path) ==
    IF Len(path) >= 2 /\ path[1] = "~" /\ path[2] = "/"
    THEN Home \o SubSeq(path, 2, Len(path)) ELSE path

\* normalisation as the specification words it: "~/" expanded, trailing slash trimmed
TrimmedNormalise(path) ==
    LET e == TildeExpanded(path)
    IN  IF Len(e) > 1 /\ e[Len(e)] = "/" THEN SubSeq(e, 1, Len(e) - 1) ELSE e

\* C1 (as claimed): after a rescan every session whose registration path is
\* still in the list refers to the workspace of that path, and
\* sessions_for_workspace(w) lists exactly the active sessions registered under
\* w's path; sessions whose path is gone are listed nowhere.
C1_RescanRebuildsAssociation ==
    last_op.type = "scan_workspaces" =>
        \A i \in 1..Len(sessions) :
            /\ registered_path[i] \in Range(workspaces) =>
                   /\ sessions[i].workspace_index \in 1..Len(workspaces)
                   /\ workspaces[sessions[i].workspace_index] = registered_path[i]
            /\ \A w \in 1..Len(workspaces) :
                   i \in Range(sessions_for_workspace(AppState, w))
                       <=> (is_active(sessions[i]) /\ workspaces[w] = registered_path[i])

\* C7: the external-id index maps e to i exactly when session i has external
\* id e, and session i is in the bucket of workspace w exactly when its
\* workspace_index is w, once.
C7_IndicesAgreeWithTable ==
    /\ \A e \in DOMAIN session_map :
           /\ session_map[e] \in 1..Len(sessions)
           /\ sessions[session_map[e]].external_id = e
    /\ \A i \in 1..Len(sessions) :
           /\ sessions[i].external_id \in DOMAIN session_map
           /\ session_map[sessions[i].external_id] = i
           /\ sessions[i].workspace_index \in DOMAIN sessions_by_workspace
           /\ \A w \in DOMAIN sessions_by_workspace :
                  Occurrences(sessions_by_workspace[w], i)
                      = (IF sessions[i].workspace_index = w THEN 1 ELSE 0)
    /\ \A w \in DOMAIN sessions_by_workspace :
           Range(sessions_by_workspace[w]) \subseteq 1..Len(sessions)

\* two sessions in two buckets, one of them removed, after an observer status
C7_Witness ==
    /\ Len(sessions) = 2
    /\ sessions[1].workspace_index # sessions[2].workspace_index
    /\ \E i \in 1..2 : ~is_active(sessions[i])
    /\ last_op.type = "SessionStatusAnalyzed"

\* C8: no two entries of the session table carry the same external id; an
\* event whose id is already in the table leaves the table as long as it was,
\* and the one entry of that id carries the update (Idle after a register that
\* found its workspace, the reported status after an observer status).
C8_ExternalIdUnique ==
    /\ \A i, j \in 1..Len(sessions) :
           sessions[i].external_id = sessions[j].external_id => i = j
    /\ Len(sessions) <= Cardinality(ExtIds)
    /\ (last_op.type = "SessionRegister" /\ last_op.was_known /\ last_op.found # 0) =>
           sessions[session_map[last_op.external_id]].status = "Idle"
    /\ (last_op.type = "SessionStatusAnalyzed" /\ last_op.was_known) =>
           sessions[session_map[last_op.external_id]].status = FromStatusState(last_op.status)

\* a register for an id that is already in the table, with two entries stored
C8_Witness ==
    /\ last_op.type = "SessionRegister"
    /\ last_op.was_known
    /\ last_op.found # 0
    /\ Len(sessions) = 2

\* C9 (as claimed): after a register that found its workspace, X is listed
\* under the workspace of the given path and under no other.
C9_RegisterListsUnderMatchedWorkspace ==
    (last_op.type = "SessionRegister" /\ last_op.found # 0) =>
        \A w \in 1..Len(workspaces) :
            session_map[last_op.external_id] \in Range(sessions_for_workspace(AppState, w))
                <=> TildeExpanded(workspaces[w]) = TildeExpanded(last_op.project_path)

\* C10 (as claimed): a project path is matched whenever it equals a workspace
\* path after expanding "~/" and trimming a trailing slash.
C10_MatchByTrimmedNormalisation ==
    LookupDone =>
        ((\E w \in 1..Len(workspaces) :
              TrimmedNormalise(workspaces[w]) = TrimmedNormalise(last_op.project_path))
            => last_op.found # 0)

\* C10 (amended): a project path is matched exactly when it equals a workspace
\* path after expanding a leading "~/" (nothing is trimmed), the first such
\* workspace is taken, and a session added by the lookup is attached to it.
C10_MatchByTildeExpansion ==
    LookupDone =>
        LET hits == {w \in 1..Len(workspaces) :
                        TildeExpanded(workspaces[w]) = TildeExpanded(last_op.project_path)}
        IN  /\ last_op.found # 0 <=> hits # {}
            /\ last_op.found # 0 => (last_op.found \in hits /\ \A w \in hits : last_op.found <= w)
            /\ (last_op.found # 0 /\ ~last_op.was_known) =>
                   /\ sessions[Len(sessions)].external_id = last_op.external_id
                   /\ sessions[Len(sessions)].workspace_index = last_op.found
            /\ (last_op.found = 0 /\ ~last_op.was_known) =>
                   last_op.external_id \notin DOMAIN session_map

\* a new session registered with "~/a" is attached to the workspace /h/a
C10_Witness ==
    /\ last_op.type = "SessionRegister"
    /\ last_op.project_path = TildeA
    /\ ~last_op.was_known
    /\ last_op.found # 0
    /\ workspaces[last_op.found] = PathA
    /\ sessions[Len(sessions)].workspace_index = last_op.found

----------------------------------------------------------------------------
(* The Claude observer: process enumeration, subagent pruning and the      *)
(* matching of transcripts to running processes                            *)

RECURSIVE normalize_path_for_comparison(_)
\* normalize_path_for_comparison of main.rs: every "~" is replaced by $HOME
normalize_path_for_comparison(path) ==
    IF path = <<>> THEN <<>>
    ELSE (IF Head(path) = "~" THEN Home ELSE <<Head(path)>>)
             \o normalize_path_for_comparison(Tail(path))

\* workspace::claude_external_id: "claude:<uuid>"
claude_external_id(session_id) == <<"claude", session_id>>

\* ClaudeProcessInfo; ppid 0 stands for Option::None (pids are positive)
ClaudeProcessInfo(pid, cwd, session_id, ppid) ==
    [pid |-> pid, cwd |-> cwd, session_id |-> session_id, ppid |-> ppid]

RECURSIVE RawFrom(_, _)
\* the lines of the ps script for the pids from pid upwards: one per process
\* named claude (pgrep lists them in ascending pid order)
RawFrom(table, pid) ==
    IF pid \notin DOMAIN table THEN <<>>
    ELSE (IF table[pid].claude
          THEN <<ClaudeProcessInfo(pid, normalize_path(table[pid].cwd),
                                   table[pid].session_id, table[pid].ppid)>>
          ELSE <<>>) \o RawFrom(table, pid + 1)

\* ClaudeSessionsFetcher::get_running_processes_raw
get_running_processes_raw(table) == RawFrom(table, 2)

\* filter_subagents: let max_depth = 3
max_depth == 3

RECURSIVE ancestor_is_claude(_, _, _, _)
\* the loop of the filter closure of filter_subagents: TRUE when it returns false
\* (the process is dropped); pid_to_ppid holds the observed Claude processes only
ancestor_is_claude(current_ppid, depth, claude_pids, pid_to_ppid) ==
    IF depth = 0 \/ current_ppid = 0 THEN FALSE
    ELSE IF current_ppid \in claude_pids THEN TRUE
    ELSE ancestor_is_claude(
             IF current_ppid \in DOMAIN pid_to_ppid THEN pid_to_ppid[current_ppid] ELSE 0,
             depth - 1, claude_pids, pid_to_ppid)

\* filter_subagents
filter_subagents(processes) ==
    LET claude_pids == {processes[k].pid : k \in 1..Len(processes)}
        with_ppid == {k \in 1..Len(processes) : processes[k].ppid # 0}
        pid_to_ppid == [pid \in {processes[k].pid : k \in with_ppid} |->
                           processes[CHOOSE k \in with_ppid : processes[k].pid = pid].ppid]
        keep == [proc \in {processes[k] : k \in 1..Len(processes)} |->
                    ~ancestor_is_claude(proc.ppid, max_depth, claude_pids, pid_to_ppid)]
    IN  FilterSeq(processes, keep)

\* ClaudeSessionsFetcher::get_running_processes
get_running_processes(table) == filter_subagents(get_running_processes_raw(table))

RECURSIVE SortedByModified(_)
\* sessions.sort_by(|a, b| b.modified.cmp(&a.modified)): newest first
SortedByModified(files) ==
    IF DOMAIN files = {} THEN <<>>
    ELSE LET newest == CHOOSE u \in DOMAIN files :
                           \A v \in DOMAIN files : files[v] <= files[u]
         IN  <<newest>> \o SortedByModified([v \in DOMAIN files \ {newest} |-> files[v]])

\* ClaudeSessionsFetcher::get_sessions for one project directory: the session
\* ids of its <uuid>.jsonl files, newest first
get_sessions(files) == SortedByModified(files)

RECURSIVE match_sessions_always_fallback(_, _, _, _)
\* the matching loop with the fallback open also when every process has an id
match_sessions_always_fallback(sess, running_session_ids, total_process_count, matched_count) ==
    IF sess = <<>> THEN <<>>
    ELSE IF matched_count < total_process_count
    THEN <<Head(sess)>> \o match_sessions_always_fallback(Tail(sess), running_session_ids,
                                                          total_process_count, matched_count + 1)
    ELSE <<>>

RECURSIVE match_sessions(_, _, _, _)
\* the loop over the sessions of one workspace in the Claude tick: the session
\* ids an event is sent for, in the order sent
match_sessions(sess, running_session_ids, total_process_count, matched_count) ==
    IF sess = <<>> THEN <<>>
    ELSE LET session_id == Head(sess)
             is_running == \E k \in 1..Len(running_session_ids) :
                               running_session_ids[k] = session_id
             should_include ==
                 \/ is_running
                 \/ /\ matched_count < total_process_count
                    /\ Len(running_session_ids) < total_process_count
         IN  IF should_include /\ matched_count < total_process_count
             THEN <<session_id>> \o match_sessions(Tail(sess), running_session_ids,
                                                   total_process_count, matched_count + 1)
             ELSE match_sessions(Tail(sess), running_session_ids,
                                 total_process_count, matched_count)

\* the body of `for (path, sessions) in &sessions_by_path` of the Claude tick
matched_for_workspace(path, sess, running) ==
    LET normalized_path == normalize_path_for_comparison(path)
        in_cwd == [proc \in {running[k] : k \in 1..Len(running)} |->
                      proc.cwd = normalized_path]
        here == FilterSeq(running, in_cwd)
        has_id == [proc \in {here[k] : k \in 1..Len(here)} |-> proc.session_id # None]
        with_id == FilterSeq(here, has_id)
        running_session_ids == [k \in 1..Len(with_id) |-> with_id[k].session_id]
        total_process_count == Len(here)
    IN  IF total_process_count = 0 THEN <<>>
        ELSE match_sessions(sess, running_session_ids, total_process_count, 0)

----------------------------------------------------------------------------
(* Specification SpecClaudeTick: one tick of the Claude poller for the     *)
(* published workspace /h/a, over every process table and every set of     *)
(* transcripts within the bounds.                                          *)

MaxPid == 4
MaxModified == 3
Pids == 2..MaxPid
Uuids == {"A", "B", "C"}

\* the processes pid can be: any process with a smaller pid (or init) as parent;
\* a claude process runs in /h/a with or without --resume A, or in /h/b
ProcessChoices(pid) ==
    {[ppid |-> pp, claude |-> FALSE, cwd |-> PathA, session_id |-> None] : pp \in 1..(pid - 1)}
    \cup {[ppid |-> pp, claude |-> TRUE, cwd |-> PathA, session_id |-> sid] :
             pp \in 1..(pid - 1), sid \in {None, "A"}}
    \cup {[ppid |-> pp, claude |-> TRUE, cwd |-> PathB, session_id |-> None] :
             pp \in 1..(pid - 1)}

\* the session table is not part of this specification
AggParked ==
    /\ workspaces = <<>>
    /\ sessions = <<>>
    /\ session_map = <<>>
    /\ sessions_by_workspace = <<>>
    /\ registered_path = <<>>
    /\ last_op = [type |-> "scan_workspaces", external_id |-> None, project_path |-> None,
                  status |-> None, found |-> 0, was_known |-> FALSE]
    /\ panicked = FALSE
    /\ tree_items = rebuild_tree(NewState(workspaces)).tree_items

TickInit ==
    /\ AggParked
    /\ ChanParked
    /\ PollParked
    /\ NotifyParked
    /\ ExtParked
    /\ ps_table \in {t \in [Pids -> UNION {ProcessChoices(pid) : pid \in Pids}] :
                        \A pid \in Pids : t[pid] \in ProcessChoices(pid)}
    /\ \E D \in SUBSET Uuids :
           transcripts \in {f \in [D -> 1..MaxModified] :
                               \A u, v \in D : f[u] = f[v] => u = v}
    /\ running_processes = <<>>
    /\ emitted = <<>>
    /\ tick_pc = "sleep"

\* let running_processes = claude_fetcher.get_running_processes()
GetRunningProcesses ==
    /\ tick_pc = "sleep"
    /\ running_processes' = get_running_processes(ps_table)
    /\ tick_pc' = "ps"
    /\ UNCHANGED <<ps_table, transcripts, emitted, aggVars, chanVars, pollVars, notifyVars, extVars>>

\* get_sessions and the matching loop for the workspace /h/a
MatchSessions ==
    /\ tick_pc = "ps"
    /\ emitted' = matched_for_workspace(PathA, get_sessions(transcripts), running_processes)
    /\ tick_pc' = "matched"
    /\ UNCHANGED <<ps_table, transcripts, running_processes, aggVars, chanVars, pollVars,
                   notifyVars, extVars>>

TickNext == GetRunningProcesses \/ MatchSessions

SpecClaudeTick == TickInit /\ [][TickNext]_vars

\* the k-th ancestor of pid in the process table (0 beyond init)
RECURSIVE Ancestor(_, _)
Ancestor(pid, k) ==
    IF pid \notin DOMAIN ps_table THEN 0
    ELSE IF k = 1 THEN ps_table[pid].ppid
    ELSE Ancestor(ps_table[pid].ppid, k - 1)

\* the pids of a sequence of processes
PidsOf(processes) == {processes[k].pid : k \in 1..Len(processes)}

\* C5 (as claimed): every transcript of the workspace whose uuid is the
\* --resume value of one of its running Claude processes is among the sessions
\* emitted for it, however many other transcripts are newer.
C5_ResumedTranscriptEmitted ==
    tick_pc = "matched" =>
        \A u \in DOMAIN transcripts :
            (\E k \in 1..Len(running_processes) :
                 /\ running_processes[k].cwd = PathA
                 /\ running_processes[k].session_id = u)
                => u \in Range(emitted)

\* C6 (as claimed): an observed Claude process is suppressed exactly when its
\* parent, grandparent or great-grandparent in the process table is an observed
\* Claude process; every other observed Claude process is kept.
C6_SuppressedIffAncestorWithinThree ==
    tick_pc # "sleep" =>
        LET observed == PidsOf(get_running_processes_raw(ps_table))
        IN  \A pid \in observed :
                pid \notin PidsOf(running_processes)
                    <=> \E k \in 1..3 : Ancestor(pid, k) \in observed

\* the smaller of two numbers
Min(a, b) == IF a < b THEN a ELSE b

\* the running (unsuppressed) Claude processes whose cwd is /h/a
RunningHere == {k \in 1..Len(running_processes) : running_processes[k].cwd = PathA}

\* C15 (as claimed): the number of sessions emitted for the workspace is the
\* smaller of the number of running Claude processes with that cwd and the
\* number of candidate transcripts.
C15_EmittedCountIsMin ==
    tick_pc = "matched" =>
        Len(emitted) = Min(Cardinality(RunningHere), Cardinality(DOMAIN transcripts))

\* the --resume values of the running processes of /h/a
ResumeIdsHere == {running_processes[k].session_id : k \in RunningHere} \ {None}

\* C15 (amended): when at least one running process of the workspace has no
\* --resume value, min(n, candidates) sessions are emitted; when every one has
\* a --resume value, exactly the candidates whose uuid is one of these values
\* are emitted, each once, and no other slot is filled; with no running
\* process nothing is emitted.
C15_EmittedCountByResume ==
    tick_pc = "matched" =>
        /\ (\E k \in RunningHere : running_processes[k].session_id = None) =>
               Len(emitted) = Min(Cardinality(RunningHere), Cardinality(DOMAIN transcripts))
        /\ (\A k \in RunningHere : running_processes[k].session_id # None) =>
               /\ Range(emitted) = DOMAIN transcripts \cap ResumeIdsHere
               /\ Len(emitted) = Cardinality(DOMAIN transcripts \cap ResumeIdsHere)

\* one process started with --resume A runs in /h/a, the transcripts are B and
\* C only, and nothing is emitted
C15_Witness ==
    /\ tick_pc = "matched"
    /\ Cardinality(RunningHere) = 1
    /\ ResumeIdsHere = {"A"}
    /\ DOMAIN transcripts = {"B", "C"}
    /\ emitted = <<>>

----------------------------------------------------------------------------
(* The notify channel and the two pollers of run_logwatch                  *)

\* capacity of the notify channel: mpsc::channel::<AppEvent>(100), scaled down
ChannelCapacity == 2
MaxTicks == 3

\* Sender::send once the channel has room: the event goes to the back
mpsc_send(ch, event) == Append(ch, event)

\* Receiver::try_recv that hands out the newest event
try_recv_newest(ch) == [event |-> ch[Len(ch)], rest |-> SubSeq(ch, 1, Len(ch) - 1)]

\* Receiver::try_recv on a channel that is not empty: the oldest event
try_recv(ch) == [event |-> Head(ch), rest |-> Tail(ch)]

\* the orders a HashSet of ids can be iterated in
Orderings(S) ==
    {o \in [1..Cardinality(S) -> S] : \A i, j \in 1..Cardinality(S) : o[i] = o[j] => i = j}

\* the Claude project directories on disk and their transcripts (uuid -> mtime)
ClaudeProjects == [p \in {PathA} |-> [u \in {"A", "B"} |-> IF u = "A" THEN 1 ELSE 2]]

\* the process tables a Claude tick can see: pid 2 is no claude process, a
\* claude process started without --resume, or one started with --resume A
PollTables ==
    {[pid \in {2} |-> [ppid |-> 1, claude |-> c, cwd |-> PathA, session_id |-> sid]] :
        c \in BOOLEAN, sid \in {None, "A"}}
    \ {[pid \in {2} |-> [ppid |-> 1, claude |-> FALSE, cwd |-> PathA, session_id |-> "A"]]}

\* the status the transcripts of a tick are in
PollStates == {"Working"}

RECURSIVE claude_matches(_, _, _)
\* get_sessions(&workspaces) followed by the matching loop: the (path, session
\* id) pairs a status event is sent for, in order
claude_matches(workspace_paths, running, projects) ==
    IF workspace_paths = <<>> THEN <<>>
    ELSE LET normalized_wp == normalize_path(Head(workspace_paths))
             ids == IF normalized_wp \in DOMAIN projects
                    THEN matched_for_workspace(normalized_wp,
                                               get_sessions(projects[normalized_wp]), running)
                    ELSE <<>>
         IN  [k \in 1..Len(ids) |-> <<normalized_wp, ids[k]>>]
                 \o claude_matches(Tail(workspace_paths), running, projects)

\* the status events of a Claude tick
claude_status_events(workspace_paths, table, status) ==
    LET m == claude_matches(workspace_paths, get_running_processes(table), ClaudeProjects)
    IN  [k \in 1..Len(m) |->
            SessionStatusAnalyzed(claude_external_id(m[k][2]), m[k][1], status, NoneStr)]

\* KiroStatus::external_id: "kiro:<path>:<conversation_id>"
kiro_external_id(project_path, conversation_id) == <<"kiro", project_path, conversation_id>>

\* the conversations of the Kiro database per workspace key, newest first
KiroConversations == [p \in {PathB} |-> <<"K">>]

RECURSIVE get_statuses(_, _, _)
\* KiroSqliteFetcher::get_statuses once the database is open: per workspace
\* with running kiro-cli processes its process_count newest conversations
get_statuses(workspace_paths, running, conversations) ==
    IF workspace_paths = <<>> THEN <<>>
    ELSE LET workspace == Head(workspace_paths)
             process_count == IF workspace \in DOMAIN running THEN running[workspace] ELSE 0
             rows == IF workspace \in DOMAIN conversations
                     THEN conversations[workspace] ELSE <<>>
             limit == IF process_count < Len(rows) THEN process_count ELSE Len(rows)
         IN  [k \in 1..limit |-> <<workspace, rows[k]>>]
                 \o get_statuses(Tail(workspace_paths), running, conversations)

\* the status events of a Kiro tick; an unavailable database gives none
kiro_status_events(workspace_paths, db_ok, running, status) ==
    LET m == IF db_ok THEN get_statuses(workspace_paths, running, KiroConversations) ELSE <<>>
    IN  [k \in 1..Len(m) |->
            SessionStatusAnalyzed(kiro_external_id(m[k][1], m[k][2]), m[k][1], status,
                                  NoneStr)]

----------------------------------------------------------------------------
(* Specification SpecPoller: the Claude and Kiro polling tasks, the notify *)
(* channel and the run_app loop (drain, publish, key).                     *)

\* the results of a scan in this specification: no repository, or both
PollerScans == {{}, ScanPaths}

PollerInit ==
    /\ \E found \in PollerScans : workspaces = SortedByPath(found)
    /\ sessions = <<>>
    /\ session_map = <<>>
    /\ sessions_by_workspace = <<>>
    /\ registered_path = <<>>
    /\ last_op = [type |-> "scan_workspaces", external_id |-> None, project_path |-> None,
                  status |-> None, found |-> 0, was_known |-> FALSE]
    /\ panicked = FALSE
    /\ tree_items = rebuild_tree(NewState(workspaces)).tree_items
    /\ TickParked
    /\ ChanParked
    /\ PollParked
    /\ NotifyParked
    /\ ExtParked

\* one iteration of a polling loop from the sleep to the first send: the list
\* is read from the watch channel, an empty list skips the tick, otherwise the
\* status events and the unregister events for prev \ current are due
PollerTick(p, status_events, failed) ==
    LET current == {status_events[k].external_id : k \in 1..Len(status_events)}
    IN  /\ outbox[p] = <<>>
        /\ ticks < MaxTicks
        /\ ticks' = ticks + 1
        /\ tick_failed' = [tick_failed EXCEPT ![p] = (failed /\ workspace_watch # <<>>)]
        /\ tick_prev' = [tick_prev EXCEPT ![p] = tick_matched[p]]
        /\ IF workspace_watch = <<>>
           THEN /\ tick_matched' = [tick_matched EXCEPT ![p] = {}]
                /\ tick_events' = [tick_events EXCEPT ![p] = <<>>]
                /\ UNCHANGED <<prev_active_sessions, current_active_sessions, outbox>>
           ELSE \E gone \in Orderings(prev_active_sessions[p] \ current) :
                    LET events == status_events
                                      \o [k \in 1..Len(gone) |-> SessionUnregister(gone[k])]
                    IN  /\ tick_matched' = [tick_matched EXCEPT ![p] = current]
                        /\ tick_events' = [tick_events EXCEPT ![p] = events]
                        /\ IF events = <<>>
                           THEN /\ prev_active_sessions' =
                                       [prev_active_sessions EXCEPT ![p] = current]
                                /\ UNCHANGED <<current_active_sessions, outbox>>
                           ELSE /\ outbox' = [outbox EXCEPT ![p] = events]
                                /\ current_active_sessions' =
                                       [current_active_sessions EXCEPT ![p] = current]
                                /\ UNCHANGED prev_active_sessions
        /\ UNCHANGED <<workspace_watch, aggVars, chanVars, tickVars, notifyVars, extVars>>

\* what the ps script of get_running_processes_raw reports: the claude
\* processes of the table, or nothing when Command::output() fails
ps_output(ps_ok, table) == IF ps_ok THEN table ELSE <<>>

\* the Claude polling loop
ClaudeTick ==
    \E ps_ok \in BOOLEAN, table \in PollTables, status \in PollStates :
        PollerTick("claude",
                   IF workspace_watch = <<>> THEN <<>>
                   ELSE claude_status_events(workspace_watch, ps_output(ps_ok, table), status),
                   ~ps_ok)

\* the Kiro polling loop
KiroTick ==
    \E db_ok \in BOOLEAN, n \in 0..1, status \in PollStates :
        PollerTick("kiro",
                   IF workspace_watch = <<>> THEN <<>>
                   ELSE kiro_status_events(workspace_watch, db_ok, [w \in {PathB} |-> n],
                                           status),
                   ~db_ok)

\* poll_tx.send(event).await of either loop: waits while the channel is full;
\* after the last send of the tick prev_active_sessions = current_active_sessions
PollerSend ==
    \E p \in Pollers :
        /\ outbox[p] # <<>>
        /\ Len(chan) < ChannelCapacity
        /\ chan' = mpsc_send(chan, Head(outbox[p]))
        /\ sent' = Append(sent, Head(outbox[p]))
        /\ outbox' = [outbox EXCEPT ![p] = Tail(@)]
        /\ prev_active_sessions' =
               IF Tail(outbox[p]) = <<>>
               THEN [prev_active_sessions EXCEPT ![p] = current_active_sessions[p]]
               ELSE prev_active_sessions
        /\ UNCHANGED <<applied, ui_pc, workspace_watch, current_active_sessions, ticks,
                       tick_prev, tick_matched, tick_events, tick_failed, aggVars, tickVars,
                       notifyVars, extVars>>

\* run_app: while let Ok(event) = notify_rx.try_recv() { handle_notify_event }
ApplyEvent ==
    /\ ui_pc = "drain"
    /\ chan # <<>>
    /\ Handle(try_recv(chan).event)
    /\ chan' = try_recv(chan).rest
    /\ applied' = Append(applied, try_recv(chan).event)
    /\ UNCHANGED <<sent, ui_pc, pollVars, tickVars, notifyVars, extVars>>

\* run_app: try_recv finds the channel empty, the drain loop ends
DrainDone ==
    /\ ui_pc = "drain"
    /\ chan = <<>>
    /\ ui_pc' = "tick"
    /\ UNCHANGED <<chan, sent, applied, aggVars, pollVars, tickVars, notifyVars, extVars>>

\* run_app: tick_count >= 10, the workspace paths are sent to the watch channel
Publish ==
    /\ ui_pc = "tick"
    /\ workspace_watch' = workspaces
    /\ ui_pc' = "key"
    /\ UNCHANGED <<chan, sent, applied, aggVars, prev_active_sessions,
                   current_active_sessions, outbox, ticks, tick_prev, tick_matched,
                   tick_events, tick_failed, tickVars, notifyVars, extVars>>

\* run_app: tick_count < 10
NoPublish ==
    /\ ui_pc = "tick"
    /\ ui_pc' = "key"
    /\ UNCHANGED <<chan, sent, applied, aggVars, pollVars, tickVars, notifyVars, extVars>>

\* run_app: the key read is Refresh, handle_action rescans
RefreshKey ==
    /\ ui_pc = "key"
    /\ \E found \in PollerScans :
           /\ Install(scan_workspaces(AppState, found))
           /\ last_op' = [type |-> "scan_workspaces", external_id |-> None,
                          project_path |-> None, status |-> None, found |-> 0,
                          was_known |-> FALSE]
    /\ ui_pc' = "drain"
    /\ UNCHANGED <<chan, sent, applied, pollVars, tickVars, notifyVars, extVars>>

\* run_app: poll_event times out or reads a key that leaves the session table alone
NoKey ==
    /\ ui_pc = "key"
    /\ ui_pc' = "drain"
    /\ UNCHANGED <<chan, sent, applied, aggVars, pollVars, tickVars, notifyVars, extVars>>

PollerNext ==
    \/ ClaudeTick
    \/ KiroTick
    \/ PollerSend
    \/ ApplyEvent
    \/ DrainDone
    \/ Publish
    \/ NoPublish
    \/ RefreshKey
    \/ NoKey

SpecPoller == PollerInit /\ [][PollerNext]_vars

\* C2 (as claimed): on every tick of a poller, for every id X it emitted a
\* status for on its previous tick and does not match now, the tick emits
\* exactly one unregister event for X, whatever list the watch channel holds;
\* and when the UI loop has applied an unregister for a session X, X is
\* Disconnected.
C2_UnregisterOnNextTick ==
    /\ \A p \in Pollers :
           \A X \in tick_prev[p] \ tick_matched[p] :
               Occurrences(tick_events[p], SessionUnregister(X)) = 1
    /\ (last_op.type = "SessionUnregister" /\ last_op.was_known) =>
           sessions[session_map[last_op.external_id]].status = "Disconnected"

\* C4: the events sent into the channel are the events applied followed by the
\* events still in the channel, in send order, so each is applied once, in
\* order; the channel never holds more than its capacity, and the handler that
\* ran last ran on the event applied last.
C4_AppliedInSendOrder ==
    /\ sent = applied \o chan
    /\ Len(chan) <= ChannelCapacity
    /\ (applied # <<>> /\ last_op.type # "scan_workspaces") =>
           /\ last_op.type = applied[Len(applied)].type
           /\ last_op.external_id = applied[Len(applied)].external_id

\* the channel is full, a poller waits to send, and an event has been applied
C4_Witness ==
    /\ Len(chan) = ChannelCapacity
    /\ \E p \in Pollers : outbox[p] # <<>>
    /\ applied # <<>>
    /\ chan[1] # chan[2]

\* the latest applied event is an observer status for X reporting it alive, X
\* was in the table, and the latest event about X before it was a removal
RevivedAfterRemoval ==
    LET n == Len(applied)
    IN  /\ n >= 2
        /\ last_op.type = "SessionStatusAnalyzed"
        /\ last_op.was_known
        /\ applied[n].type = "SessionStatusAnalyzed"
        /\ applied[n].external_id = last_op.external_id
        /\ applied[n].status # "Disconnected"
        /\ \E k \in 1..(n - 1) :
               /\ applied[k] = SessionUnregister(applied[n].external_id)
               /\ \A j \in (k + 1)..(n - 1) :
                      applied[j].external_id # applied[n].external_id

\* C11: when session X is Disconnected because of a removal and an observer
\* status reporting X alive is applied, X has the reported status and is listed
\* again by sessions_for_workspace of its workspace.
C11_RemovalOverwrittenByObserver ==
    RevivedAfterRemoval =>
        LET X == applied[Len(applied)].external_id
            i == session_map[X]
        IN  /\ sessions[i].status = FromStatusState(applied[Len(applied)].status)
            /\ is_active(sessions[i])
            /\ i \in Range(sessions_for_workspace(AppState, sessions[i].workspace_index))

\* a poller saw X, missed it on the next tick and saw it again on the third;
\* the three events have been applied in a state where X's workspace is listed
C11_Witness ==
    /\ RevivedAfterRemoval
    /\ Len(applied) = 3
    /\ applied[1].type = "SessionStatusAnalyzed"
    /\ applied[2].type = "SessionUnregister"
    /\ applied[1].external_id = applied[3].external_id

\* C14 (as claimed): a tick whose fetch failed (the ps subprocess could not be
\* run, the Kiro database could not be opened) emits no status event and no
\* unregister event.
C14_FailedTickEmitsNothing ==
    \A p \in Pollers : tick_failed[p] => tick_events[p] = <<>>

----------------------------------------------------------------------------
(* The notify listener: one client, the accept loop and one spawned task   *)
(* per connection                                                          *)

MaxMessages == 3

\* NotifyMessage::Register, Status, Unregister as one record shape
NotifyRegister(session_id, project_path, tool) ==
    [type |-> "register", session_id |-> session_id, project_path |-> project_path,
     tool |-> tool, status |-> None]
NotifyStatus(session_id, status) ==
    [type |-> "status", session_id |-> session_id, project_path |-> None,
     tool |-> None, status |-> status]
NotifyUnregister(session_id) ==
    [type |-> "unregister", session_id |-> session_id, project_path |-> None,
     tool |-> None, status |-> None]

\* SessionStatus::from_str on a lower-case string
SessionStatus_from_str(str) ==
    CASE str = "working" -> "Working"
      [] str = "idle" -> "Idle"
      [] str \in {"needs_input", "waiting"} -> "NeedsInput"
      [] str \in {"success", "completed"} -> "Success"
      [] str = "error" -> "Error"
      [] str \in {"disconnected", "ended"} -> "Disconnected"
      [] OTHER -> "Idle"

\* AiTool::from_str on a lower-case string
AiTool_from_str(str) ==
    CASE str = "claude" -> "Claude"
      [] str = "kiro" -> "Kiro"
      [] str = "opencode" -> "OpenCode"
      [] str = "codex" -> "Codex"
      [] OTHER -> "Claude"

\* message_to_event: the session event a notify message becomes
message_to_event(message) ==
    CASE message.type = "register" ->
             SessionRegister(message.session_id, message.project_path,
                             AiTool_from_str(message.tool), None)
      [] message.type = "status" ->
             SessionUpdate(message.session_id, SessionStatus_from_str(message.status),
                           NoneStr)
      [] OTHER -> SessionUnregister(message.session_id)

\* the largest length a frame may declare (1024 * 1024)
MaxMessageBytes == 1048576

\* serde_json::to_string of a message: the body as a sequence of units, one for
\* each brace and each field value
to_string(message) ==
    <<"{", message.type, message.session_id, message.project_path, message.tool,
      message.status, "}">>

\* client::send_message: the frame written to the stream, the length of the
\* body as prefix and the body
send_message(message) ==
    [len |-> Len(to_string(message)), body |-> to_string(message)]

\* serde_json::from_slice::<NotifyMessage>: Ok with the message, or Err
from_slice(buf) ==
    IF /\ Len(buf) = 7
       /\ buf[1] = "{"
       /\ buf[7] = "}"
       /\ buf[2] \in {"register", "status", "unregister"}
    THEN [ok |-> TRUE,
          message |-> [type |-> buf[2], session_id |-> buf[3], project_path |-> buf[4],
                       tool |-> buf[5], status |-> buf[6]]]
    ELSE [ok |-> FALSE, message |-> None]

\* the messages the client sends in this specification
NotifyMessages ==
    {NotifyRegister(ExtIdClaude, PathA, "claude"), NotifyRegister(ExtIdClaude, PathB, "kiro"),
     NotifyUnregister(ExtIdClaude)}
    \cup {NotifyStatus(ExtIdClaude, str) : str \in {"working", "idle"}}

NotifyInit ==
    /\ workspaces = SortedByPath(ScanPaths)
    /\ sessions = <<>>
    /\ session_map = <<>>
    /\ sessions_by_workspace = <<>>
    /\ registered_path = <<>>
    /\ last_op = [type |-> "scan_workspaces", external_id |-> None, project_path |-> None,
                  status |-> None, found |-> 0, was_known |-> FALSE]
    /\ panicked = FALSE
    /\ tree_items = rebuild_tree(NewState(workspaces)).tree_items
    /\ TickParked
    /\ ChanParked
    /\ PollParked
    /\ NotifyParked
    /\ ExtParked

\* send_notification: connect, write the frame, flush; returns without waiting
\* for the listener to accept
ClientSend ==
    /\ Len(client_log) < MaxMessages
    /\ \E message \in NotifyMessages :
           /\ client_log' = Append(client_log, message)
           /\ accept_queue' = Append(accept_queue,
                                     [conn |-> Len(client_log) + 1,
                                      frame |-> send_message(message)])
    /\ UNCHANGED <<conn_tasks, aggVars, chanVars, pollVars, tickVars, extVars>>

\* run_listener: listener.accept() returns the oldest connection, tokio::spawn
Accept ==
    /\ accept_queue # <<>>
    /\ conn_tasks' = conn_tasks \cup {Head(accept_queue)}
    /\ accept_queue' = Tail(accept_queue)
    /\ UNCHANGED <<client_log, aggVars, chanVars, pollVars, tickVars, extVars>>

\* handle_connection that reads what the stream has when it ends before the
\* declared length
handle_connection_partial_read(frame) ==
    IF frame.len > MaxMessageBytes THEN [ok |-> FALSE, event |-> None]
    ELSE LET avail == IF Len(frame.body) < frame.len THEN Len(frame.body) ELSE frame.len
             message == from_slice(SubSeq(frame.body, 1, avail))
         IN  IF message.ok THEN [ok |-> TRUE, event |-> message_to_event(message.message)]
             ELSE [ok |-> FALSE, event |-> None]

\* handle_connection up to tx.send: the event to send, or Err when the declared
\* length is above the limit, the stream ends before the declared length
\* (read_exact) or the body does not parse
handle_connection(frame) ==
    IF frame.len > MaxMessageBytes THEN [ok |-> FALSE, event |-> None]
    ELSE IF Len(frame.body) < frame.len THEN [ok |-> FALSE, event |-> None]
    ELSE LET message == from_slice(SubSeq(frame.body, 1, frame.len))
         IN  IF message.ok THEN [ok |-> TRUE, event |-> message_to_event(message.message)]
             ELSE [ok |-> FALSE, event |-> None]

\* handle_connection of any spawned task: read the frame, parse, tx.send(event);
\* on Err the task logs a warning and ends
HandleConnection ==
    \E task \in conn_tasks :
        /\ conn_tasks' = conn_tasks \ {task}
        /\ IF handle_connection(task.frame).ok
           THEN /\ Len(chan) < ChannelCapacity
                /\ chan' = mpsc_send(chan, handle_connection(task.frame).event)
                /\ sent' = Append(sent, handle_connection(task.frame).event)
           ELSE UNCHANGED <<chan, sent>>
        /\ UNCHANGED <<client_log, accept_queue, applied, ui_pc, aggVars, pollVars, tickVars, extVars>>

NotifyNext == ClientSend \/ Accept \/ HandleConnection \/ ApplyEvent

SpecNotify == NotifyInit /\ [][NotifyNext]_vars

----------------------------------------------------------------------------
(* Specification SpecSystem: the notify listener, the Claude poller and the *)
(* run_app loop together, from the state in which run_app has sent the      *)
(* initial workspace list to the watch channel.                             *)

SystemInit ==
    /\ workspaces = SortedByPath(ScanPaths)
    /\ sessions = <<>>
    /\ session_map = <<>>
    /\ sessions_by_workspace = <<>>
    /\ registered_path = <<>>
    /\ last_op = [type |-> "scan_workspaces", external_id |-> None, project_path |-> None,
                  status |-> None, found |-> 0, was_known |-> FALSE]
    /\ panicked = FALSE
    /\ tree_items = rebuild_tree(NewState(workspaces)).tree_items
    /\ TickParked
    /\ ChanParked
    /\ NotifyParked
    /\ ExtParked
    /\ workspace_watch = SortedByPath(ScanPaths)
    /\ prev_active_sessions = [p \in Pollers |-> {}]
    /\ current_active_sessions = [p \in Pollers |-> {}]
    /\ outbox = [p \in Pollers |-> <<>>]
    /\ ticks = 0
    /\ tick_prev = [p \in Pollers |-> {}]
    /\ tick_matched = [p \in Pollers |-> {}]
    /\ tick_events = [p \in Pollers |-> <<>>]
    /\ tick_failed = [p \in Pollers |-> FALSE]

\* the client of this specification sends one message less, the poller ticks
\* once (twice, thrice as MaxTicks grows)
SystemClientSend ==
    /\ Len(client_log) < MaxMessages - 1
    /\ ClientSend

SystemClaudeTick ==
    /\ ticks < MaxTicks - 2
    /\ ClaudeTick

SystemNext ==
    \/ SystemClientSend
    \/ Accept
    \/ HandleConnection
    \/ SystemClaudeTick
    \/ PollerSend
    \/ ApplyEvent
    \/ DrainDone
    \/ NoPublish
    \/ NoKey

SpecSystem == SystemInit /\ [][SystemNext]_vars

\* a register for X sent by a notify client has been applied and X is active
RegisteredThroughNotify(X) ==
    /\ \E k \in 1..Len(applied) :
           applied[k].type = "SessionRegister" /\ applied[k].external_id = X
    /\ X \in DOMAIN session_map
    /\ is_active(sessions[session_map[X]])

\* C12 (as claimed): when X was registered through notify for a known
\* workspace and a tick of the Claude poller that reads the workspace list does
\* not see X, that tick emits a removal for X; and once a removal for X has
\* been applied no sessions_for_workspace lists X.
C12_RemovalEmittedForMissedSession ==
    [][/\ (/\ ticks' = ticks + 1
           /\ workspace_watch # <<>>
           /\ RegisteredThroughNotify(ExtIdClaude)
           /\ ExtIdClaude \notin tick_matched'["claude"])
              => SessionUnregister(ExtIdClaude) \in Range(tick_events'["claude"])
       /\ (last_op'.type = "SessionUnregister" /\ last_op'.was_known)
              => \A w \in 1..Len(workspaces') :
                     session_map'[last_op'.external_id]
                         \notin Range(sessions_for_workspace(AppState', w))]_vars

----------------------------------------------------------------------------
(* Specification SpecContent: the handlers of the UI loop over events of   *)
(* every status and with summaries of several lengths and character        *)
(* widths, for sessions of the workspace /h/a.                             *)

\* a string of n characters of one byte width
Chars(width, n) == [k \in 1..n |-> width]

\* the summaries an observer reports: none, 17 CJK characters (51 bytes), two
\* ASCII characters followed by 17 CJK characters (53 bytes)
Summaries == {NoneStr, Some(Chars(3, 17)), Some(Chars(1, 2) \o Chars(3, 17))}

\* the messages a status update carries: none, or 51 ASCII characters
Messages == {NoneStr, Some(Chars(1, 51))}

ContentInit ==
    /\ workspaces = SortedByPath(ScanPaths)
    /\ sessions = <<>>
    /\ session_map = <<>>
    /\ sessions_by_workspace = <<>>
    /\ registered_path = <<>>
    /\ last_op = [type |-> "scan_workspaces", external_id |-> None, project_path |-> None,
                  status |-> None, found |-> 0, was_known |-> FALSE]
    /\ panicked = FALSE
    /\ tree_items = rebuild_tree(NewState(workspaces)).tree_items
    /\ TickParked
    /\ ChanParked
    /\ PollParked
    /\ NotifyParked
    /\ ExtParked

\* handle_notify_event(SessionRegister)
ContentRegister ==
    /\ \E e \in ExtIds : Handle(SessionRegister(e, PathA, "Claude", None))
    /\ UNCHANGED <<tickVars, chanVars, pollVars, notifyVars, extVars>>

\* handle_notify_event(SessionUpdate)
ContentUpdate ==
    /\ \E e \in ExtIds, status \in UpdateStatuses, message \in Messages :
           Handle(SessionUpdate(e, status, message))
    /\ UNCHANGED <<tickVars, chanVars, pollVars, notifyVars, extVars>>

\* handle_notify_event(SessionUnregister)
ContentUnregister ==
    /\ \E e \in ExtIds : Handle(SessionUnregister(e))
    /\ UNCHANGED <<tickVars, chanVars, pollVars, notifyVars, extVars>>

\* handle_notify_event(SessionStatusAnalyzed)
ContentObserverStatus ==
    /\ \E e \in ExtIds, status \in StatusStates, summary \in Summaries :
           Handle(SessionStatusAnalyzed(e, PathA, status, summary))
    /\ UNCHANGED <<tickVars, chanVars, pollVars, notifyVars, extVars>>

ContentNext == ContentRegister \/ ContentUpdate \/ ContentUnregister \/ ContentObserverStatus

SpecContent == ContentInit /\ [][ContentNext]_vars

\* C13 (as claimed): no session event makes the handler fail, whatever its
\* external id, project path and summary; and an event that is dropped (its id
\* was not in the table and no workspace was found for it) leaves the session
\* table and its indices unchanged.
C13_HandlerTotal ==
    [][/\ ~panicked'
       /\ (~last_op'.was_known /\ last_op'.found = 0) =>
              /\ sessions' = sessions
              /\ session_map' = session_map
              /\ sessions_by_workspace' = sessions_by_workspace]_vars

\* the statuses of the sessions listed under workspace w
ListedStatuses(w) ==
    {sessions[i].status : i \in Range(sessions_for_workspace(AppState, w))}

\* C16: for every workspace the aggregate status is Working if a listed session
\* is Working, else NeedsInput if one is NeedsInput, else Idle if one is Idle or
\* Success, else Disconnected (no listed session, or Error sessions only).
C16_AggregatePrecedence ==
    \A w \in 1..Len(workspaces) :
        workspace_aggregate_status(AppState, w) =
            (IF "Working" \in ListedStatuses(w) THEN "Working"
             ELSE IF "NeedsInput" \in ListedStatuses(w) THEN "NeedsInput"
             ELSE IF ListedStatuses(w) \cap {"Idle", "Success"} # {} THEN "Idle"
             ELSE "Disconnected")

\* a workspace lists a Working and a NeedsInput session, another lists none
C16_Witness ==
    /\ ListedStatuses(1) = {"Working", "NeedsInput"}
    /\ ListedStatuses(2) = {}
    /\ workspace_aggregate_status(AppState, 1) = "Working"
    /\ workspace_aggregate_status(AppState, 2) = "Disconnected"

\* the sessions attached to workspace w that are not Disconnected, in the order
\* of their insertion into the session table
AttachedActive(w) ==
    AscendingSeq({i \in 1..Len(sessions) :
                     sessions[i].workspace_index = w /\ is_active(sessions[i])})

\* C17: sessions_for_workspace(w) is exactly the sessions attached to w whose
\* status is not Disconnected, in the order of their first insertion, after any
\* sequence of status updates, removals and revivals.
C17_ListingIsActiveInInsertionOrder ==
    \A w \in 1..Len(workspaces) : sessions_for_workspace(AppState, w) = AttachedActive(w)

\* two sessions are attached to one workspace and listed in insertion order
\* after an observer status for the first, which was in the table, has been
\* applied; no session is attached to the other workspace
C17_Witness ==
    /\ last_op.type = "SessionStatusAnalyzed"
    /\ last_op.was_known
    /\ session_map[last_op.external_id] = 1
    /\ sessions[1].status = "NeedsInput"
    /\ sessions_for_workspace(AppState, sessions[1].workspace_index) = <<1, 2>>
    /\ \A w \in 1..Len(workspaces) :
           w # sessions[1].workspace_index => sessions_for_workspace(AppState, w) = <<>>

\* the state remove(X) is to leave: X, if it is in the table, has status
\* Disconnected, and every other field of the state is as before
OnlyDisconnected(X) ==
    [AppState EXCEPT !.sessions =
        [i \in 1..Len(sessions) |->
            IF ~session_is_unknown(AppState, X) /\ i = session_map[X]
            THEN [sessions[i] EXCEPT !.status = "Disconnected"]
            ELSE sessions[i]]]

LatestObserverEvent(summary) ==
    SessionStatusAnalyzed(last_op.external_id, last_op.project_path, last_op.status, summary)

\* the summaries the latest observer status event can have carried: the handler
\* did not fail on it, and the session, if there is one, shows it
LatestSummaries ==
    {summary \in Summaries :
        /\ ~display_summary_panics(summary)
        /\ ~session_is_unknown(AppState, last_op.external_id) =>
               sessions[session_map[last_op.external_id]].summary = display_summary(summary)}

\* C19: in every state reached by applying an observer status event, applying
\* the same event again changes nothing: same session table (no second entry
\* for X), same session_map, same sessions_by_workspace, same tree.  An event on
\* which the handler fails has no second application.
C19_ObserverStatusIdempotent ==
    (last_op.type = "SessionStatusAnalyzed" /\ ~panicked) =>
        \A summary \in LatestSummaries :
            handle_notify_event(AppState, LatestObserverEvent(summary)) = AppState

\* the latest event was an observer status that auto-registered a second session
\* and gave it a status and a summary; the same event applied again changes
\* nothing and adds no third entry
C19_Witness ==
    /\ last_op.type = "SessionStatusAnalyzed"
    /\ ~panicked
    /\ ~last_op.was_known
    /\ last_op.found # 0
    /\ Len(sessions) = 2
    /\ session_map[last_op.external_id] = 2
    /\ sessions[2].status = "NeedsInput"
    /\ sessions[2].summary.some
    /\ LatestSummaries # {}
    /\ \A summary \in LatestSummaries :
           Len(handle_notify_event(AppState, LatestObserverEvent(summary)).sessions) = 2

\* the session with external id X is listed under workspace w with this tool
\* and status Idle
ListedIdle(X, w, tool) ==
    /\ X \in DOMAIN session_map
    /\ session_map[X] \in Range(sessions_for_workspace(AppState, w))
    /\ sessions[session_map[X]].tool = tool
    /\ sessions[session_map[X]].status = "Idle"

\* the latest applied event
LatestApplied == applied[Len(applied)]

\* the event of a register message for a known workspace path has just been
\* applied
RegisterApplied ==
    /\ applied # <<>>
    /\ LatestApplied.type = "SessionRegister"
    /\ find_workspace_by_path(AppState, LatestApplied.project_path) # 0

char_count(text) == Len(text)

\* C21 (as claimed): in every state reached by notify and observer updates the
\* stored summary of every session has at most 50 characters.
C21_SummaryAtMost50Chars ==
    \A i \in 1..Len(sessions) :
        sessions[i].summary.some => char_count(sessions[i].summary.text) <= 50

----------------------------------------------------------------------------
(* Specification SpecFrames: the notify listener with peers that write any  *)
(* frame to the socket, well-formed or not, and the UI loop applying the    *)
(* events.                                                                  *)

\* the number of connections made
MaxFrames == 3

\* the messages of the well-formed frames
FrameMessages ==
    {NotifyRegister(ExtIdClaude, PathA, "claude"), NotifyStatus(ExtIdClaude, "working"),
     NotifyUnregister(ExtIdClaude)}

\* frames that are not the output of send_message: a declared length above the
\* limit, a declared length at the limit or of a whole message with a stream
\* that ends earlier, a body that is no JSON, a body that is no NotifyMessage
BadFrames ==
    {[len |-> MaxMessageBytes + 1,
      body |-> to_string(NotifyRegister(ExtIdClaude, PathA, "claude"))],
     [len |-> MaxMessageBytes,
      body |-> to_string(NotifyRegister(ExtIdClaude, PathA, "claude"))],
     [len |-> 7, body |-> SubSeq(to_string(NotifyUnregister(ExtIdClaude)), 1, 4)],
     [len |-> 1, body |-> <<"x">>],
     [len |-> 7, body |-> <<"{", "bogus", ExtIdClaude, None, None, None, "}">>]}

\* the connection of a peer is queued for accept, and what it wrote is logged
Connect(entry) ==
    /\ client_log' = Append(client_log, entry)
    /\ accept_queue' = Append(accept_queue,
                              [conn |-> Len(client_log) + 1, frame |-> entry.frame])

\* a peer connects, writes a frame and closes the stream: the frame is what
\* send_message writes for a message, or it is none of these
FrameSend ==
    /\ Len(client_log) < MaxFrames
    /\ \/ \E message \in FrameMessages :
              Connect([frame |-> send_message(message), good |-> TRUE, message |-> message])
       \/ \E frame \in BadFrames :
              Connect([frame |-> frame, good |-> FALSE, message |-> None])
    /\ UNCHANGED <<conn_tasks, aggVars, chanVars, pollVars, tickVars, extVars>>

FramesNext == FrameSend \/ Accept \/ HandleConnection \/ ApplyEvent

SpecFrames == NotifyInit /\ [][FramesNext]_vars

\* the connections whose task has ended
Handled ==
    {c \in 1..Len(client_log) :
        /\ \A k \in 1..Len(accept_queue) : accept_queue[k].conn # c
        /\ \A task \in conn_tasks : task.conn # c}

\* the connections in C that carried a well-formed frame for this event
CarriedBy(C, event) ==
    {c \in C : client_log[c].good /\ message_to_event(client_log[c].message) = event}

\* C22: the events that have entered the channel are exactly the events of the
\* well-formed frames of the connections whose task has ended, each once and
\* with the content of its message: a frame that declares more than 1 MiB, ends
\* before its declared length or does not parse adds nothing and takes nothing
\* away; and whatever frames came before, a waiting connection can be accepted
\* and the task of a bad frame can end.
C22_BadFrameOnlyDropsItsConnection ==
    /\ \A event \in Range(sent) \cup {message_to_event(message) : message \in FrameMessages} :
           Occurrences(sent, event) = Cardinality(CarriedBy(Handled, event))
    /\ accept_queue # <<>> => ENABLED Accept
    /\ \A task \in conn_tasks :
           ~client_log[task.conn].good =>
               ENABLED (HandleConnection /\ conn_tasks' = conn_tasks \ {task})

\* a register, then a frame declaring more than 1 MiB, then a status update
\* have been written; all three tasks have ended, the two events have entered
\* the channel and have been applied
C22_Witness ==
    /\ Len(client_log) = 3
    /\ client_log[1].good
    /\ client_log[1].message = NotifyRegister(ExtIdClaude, PathA, "claude")
    /\ ~client_log[2].good
    /\ client_log[2].frame.len = MaxMessageBytes + 1
    /\ client_log[3].good
    /\ client_log[3].message = NotifyStatus(ExtIdClaude, "working")
    /\ Handled = {1, 2, 3}
    /\ Len(sent) = 2
    /\ applied = sent

----------------------------------------------------------------------------
(* Specification SpecTail: parse_jsonl_tail over the lines read from the    *)
(* end of a transcript.  A line is a record: type "assistant" or "user"     *)
(* with message.content (an array of items, or no array), another entry     *)
(* type, a line that is no JSON, or a blank line.  The text of an item is   *)
(* the string left by trim(), as a sequence of character widths.            *)

\* the number of lines of a tail
MaxLines == 3

\* truncate_text
truncate_text(text, max_chars) ==
    IF Len(text) > max_chars
    THEN SubSeq(text, 1, IF max_chars >= 3 THEN max_chars - 3 ELSE 0) \o <<1, 1, 1>>
    ELSE text

\* the locals of parse_jsonl_tail before the walk
NoLocals ==
    [last_assistant_text |-> NoneStr, last_user_input |-> NoneStr, last_tool_name |-> None,
     last_entry_type |-> None, last_content_kind |-> None]

\* one item of an assistant entry's content
assistant_item(acc, item) ==
    LET marked(kind) == IF acc.last_content_kind = None
                        THEN [acc EXCEPT !.last_content_kind = kind,
                                         !.last_entry_type = "assistant"]
                        ELSE acc
    IN  CASE item.type = "tool_use" ->
                 [marked("tool_use") EXCEPT !.last_tool_name =
                     IF acc.last_tool_name = None THEN item.name ELSE @]
          [] item.type = "text" ->
                 [marked("text") EXCEPT !.last_assistant_text =
                     IF ~acc.last_assistant_text.some /\ item.text # <<>>
                     THEN Some(truncate_text(item.text, 50)) ELSE @]
          [] item.type = "thinking" -> marked("thinking")
          [] OTHER -> acc

RECURSIVE assistant_items(_, _, _)
\* for item in items.iter().rev(), from position k down
assistant_items(acc, items, k) ==
    IF k = 0 THEN acc
    ELSE assistant_items(assistant_item(acc, items[k]), items, k - 1)

RECURSIVE user_items(_, _, _)
\* for item in items, from position k up: the first text item that is neither
\* empty nor an interruption notice becomes last_user_input
user_items(acc, items, k) ==
    IF k > Len(items) THEN acc
    ELSE user_items(
             IF /\ items[k].type = "text"
                /\ ~acc.last_user_input.some
                /\ items[k].text # <<>>
                /\ ~items[k].interrupted
             THEN [acc EXCEPT !.last_user_input = Some(truncate_text(items[k].text, 80))]
             ELSE acc,
             items, k + 1)

\* the body of the walk for one line
parse_line(acc, line) ==
    CASE line.type = "assistant" ->
             IF line.is_array THEN assistant_items(acc, line.content, Len(line.content))
             ELSE acc
      [] line.type = "user" ->
             LET noted == IF line.is_array THEN user_items(acc, line.content, 1) ELSE acc
                 has_tool_result ==
                     /\ line.is_array
                     /\ \E k \in 1..Len(line.content) : line.content[k].type = "tool_result"
             IN  IF noted.last_content_kind = None
                 THEN [noted EXCEPT !.last_content_kind =
                                        IF has_tool_result THEN "tool_result" ELSE "user_text",
                                    !.last_entry_type = "user"]
                 ELSE noted
      [] OTHER -> acc

\* the walk stops once all the information is there
walk_done(acc) ==
    /\ acc.last_assistant_text.some
    /\ acc.last_user_input.some
    /\ acc.last_tool_name # None
    /\ acc.last_entry_type # None

RECURSIVE walk_lines(_, _, _)
\* for line in lines[start_idx..].iter().rev(): from position k down to first
walk_lines(acc, lines, k) ==
    IF k = 0 THEN acc
    ELSE LET line == lines[k]
         IN  IF line.type \notin {"assistant", "user"} THEN walk_lines(acc, lines, k - 1)
             ELSE LET next == parse_line(acc, line)
                  IN  IF walk_done(next) THEN next ELSE walk_lines(next, lines, k - 1)

\* the state detail in which a tool result of the user counts as a running tool
state_detail_of_tool_result_executing(last_entry_type, last_content_kind) ==
    CASE last_entry_type = "assistant" /\ last_content_kind = "tool_use" -> "ExecutingTool"
      [] last_entry_type = "user" /\ last_content_kind = "tool_result" -> "ExecutingTool"
      [] last_entry_type \in {"assistant", "user"} /\ last_content_kind # None -> "Thinking"
      [] OTHER -> "Inactive"

\* the state detail for the most recent entry type and content kind
state_detail_of(last_entry_type, last_content_kind) ==
    CASE last_entry_type = "assistant" /\ last_content_kind = "tool_use" -> "ExecutingTool"
      [] last_entry_type = "assistant" /\ last_content_kind = "text" -> "Thinking"
      [] last_entry_type = "assistant" /\ last_content_kind = "thinking" -> "Thinking"
      [] last_entry_type = "user" /\ last_content_kind = "tool_result" -> "Thinking"
      [] last_entry_type = "user" /\ last_content_kind = "user_text" -> "Thinking"
      [] OTHER -> "Inactive"

\* parse_jsonl_tail for a file that could be read: the first line is skipped
\* when the read did not start at byte 0
parse_jsonl_tail(tail) ==
    LET lines == IF tail.read_start > 0 /\ tail.lines # <<>> THEN Tail(tail.lines)
                 ELSE tail.lines
        acc == walk_lines(NoLocals, lines, Len(lines))
    IN  [parsed |-> TRUE,
         last_assistant_text |-> acc.last_assistant_text,
         last_user_input |-> acc.last_user_input,
         last_tool_name |-> acc.last_tool_name,
         state_detail |-> state_detail_of(acc.last_entry_type, acc.last_content_kind)]

\* content items: type, the tool name of a tool_use, the trimmed text of a text
\* item and whether it starts with "[Request interrupted"
Item(type, name, text, interrupted) ==
    [type |-> type, name |-> name, text |-> text, interrupted |-> interrupted]
ToolUse == Item("tool_use", "Bash", <<>>, FALSE)
Text == Item("text", None, Chars(1, 2), FALSE)
BlankText == Item("text", None, <<>>, FALSE)
Interruption == Item("text", None, Chars(1, 2), TRUE)
Thinking == Item("thinking", None, <<>>, FALSE)
ToolResult == Item("tool_result", None, <<>>, FALSE)
Image == Item("image", None, <<>>, FALSE)

\* a line of the tail
Line(type, is_array, content) == [type |-> type, is_array |-> is_array, content |-> content]

\* the contents of the assistant and user entries of a tail
AssistantContents ==
    {<<>>, <<ToolUse>>, <<Text>>, <<BlankText>>, <<Thinking>>, <<Image>>,
     <<Text, ToolUse>>, <<ToolUse, Text>>, <<Thinking, Text>>, <<ToolUse, Image>>}
UserContents ==
    {<<>>, <<Text>>, <<Interruption>>, <<ToolResult>>, <<Text, ToolResult>>, <<Image>>}

\* entries of other types, lines that are no JSON, blank lines
NoiseLines ==
    {Line("progress", FALSE, <<>>), Line("unparseable", FALSE, <<>>), Line("blank", FALSE, <<>>)}

TailLines ==
    {Line("assistant", TRUE, content) : content \in AssistantContents}
    \cup {Line("user", TRUE, content) : content \in UserContents}
    \cup {Line("assistant", FALSE, <<>>), Line("user", FALSE, <<>>)}
    \cup NoiseLines

\* a transcript tail: up to MaxLines lines, read from byte 0 or from a later
\* byte (then the first line may be partial, and there is one)
TailInit ==
    /\ \E n \in 0..MaxLines, read_start \in {0, 1} :
           /\ read_start > 0 => n > 0
           /\ \E lines \in [1..n -> TailLines] :
                  jsonl_lines = [read_start |-> read_start, lines |-> lines]
    /\ jsonl_state = [parsed |-> FALSE]
    /\ kiro_history = <<>>
    /\ kiro_status = [parsed |-> FALSE]
    /\ workspaces = <<>>
    /\ sessions = <<>>
    /\ session_map = <<>>
    /\ sessions_by_workspace = <<>>
    /\ registered_path = <<>>
    /\ last_op = [type |-> "scan_workspaces", external_id |-> None, project_path |-> None,
                  status |-> None, found |-> 0, was_known |-> FALSE]
    /\ panicked = FALSE
    /\ tree_items = <<>>
    /\ TickParked
    /\ ChanParked
    /\ PollParked
    /\ NotifyParked
    /\ TreeParked
    /\ MuxParked

\* get_sessions: the tail of an active session's transcript is parsed
ParseTail ==
    /\ ~jsonl_state.parsed
    /\ jsonl_state' = parse_jsonl_tail(jsonl_lines)
    /\ UNCHANGED <<jsonl_lines, kiro_history, kiro_status, treeVars, muxVars, aggVars, tickVars,
                   chanVars, pollVars, notifyVars>>

TailNext == ParseTail

SpecTail == TailInit /\ [][TailNext]_vars

\* the lines the parser walks: all but the first when the read started late
Remaining ==
    IF jsonl_lines.read_start > 0 THEN Tail(jsonl_lines.lines) ELSE jsonl_lines.lines

\* the content kinds an assistant entry can mark
AssistantKinds == {"tool_use", "text", "thinking"}

\* a recognised entry: a user entry, or an assistant entry with a tool_use,
\* text or thinking item
Recognised(line) ==
    \/ line.type = "user"
    \/ /\ line.type = "assistant"
       /\ \E k \in 1..Len(line.content) : line.content[k].type \in AssistantKinds

\* what a recognised entry is: for an assistant entry the type of its last
\* tool_use, text or thinking item; for a user entry tool_result if it has
\* such an item and user text otherwise
KindOf(line) ==
    IF line.type = "user"
    THEN (IF \E k \in 1..Len(line.content) : line.content[k].type = "tool_result"
          THEN "tool_result" ELSE "user_text")
    ELSE LET last == CHOOSE k \in 1..Len(line.content) :
                         /\ line.content[k].type \in AssistantKinds
                         /\ \A j \in (k + 1)..Len(line.content) :
                                line.content[j].type \notin AssistantKinds
         IN  line.content[last].type

RECURSIVE WithoutNoise(_)
\* the lines without those that are no JSON, blank, or entries of other types
WithoutNoise(lines) ==
    IF lines = <<>> THEN <<>>
    ELSE IF Head(lines).type \in {"assistant", "user"}
         THEN <<Head(lines)>> \o WithoutNoise(Tail(lines))
         ELSE WithoutNoise(Tail(lines))

\* C23: the state detail of a parsed tail is that of its most recent recognised
\* entry (ExecutingTool for an assistant tool_use, Thinking for assistant text
\* or thinking and for a user tool result or user text); without a recognised
\* entry it is Inactive and there is no assistant text for a summary; and the
\* whole result is the one the parser gives for the tail with the unparseable
\* lines, blank lines and entries of other types taken out.
C23_DetailFromLatestRecognisedEntry ==
    jsonl_state.parsed =>
        LET recognised == {k \in 1..Len(Remaining) : Recognised(Remaining[k])}
            latest == CHOOSE k \in recognised : \A j \in recognised : j <= k
        IN  /\ recognised = {} =>
                   /\ jsonl_state.state_detail = "Inactive"
                   /\ ~jsonl_state.last_assistant_text.some
            /\ recognised # {} =>
                   jsonl_state.state_detail =
                       (IF KindOf(Remaining[latest]) = "tool_use" THEN "ExecutingTool"
                        ELSE "Thinking")
            /\ jsonl_state =
                   parse_jsonl_tail([read_start |-> 0, lines |-> WithoutNoise(Remaining)])

\* a tail of a user tool result, an assistant entry with a text and a tool_use
\* item and a line that is no JSON has been parsed: ExecutingTool, with the text
C23_Witness ==
    /\ jsonl_state.parsed
    /\ jsonl_lines = [read_start |-> 0,
                      lines |-> <<Line("user", TRUE, <<ToolResult>>),
                                  Line("assistant", TRUE, <<Text, ToolUse>>),
                                  Line("unparseable", FALSE, <<>>)>>]
    /\ jsonl_state.state_detail = "ExecutingTool"
    /\ jsonl_state.last_assistant_text = Some(Chars(1, 2))

----------------------------------------------------------------------------
(* Specification SpecKiro: parse_conversation_value over the history of a   *)
(* conversation.  An entry has an assistant value (absent, not an object,   *)
(* or an object with or without the keys ToolUse and Response) and a user   *)
(* entry (absent, or with a content that is absent, of another shape, or    *)
(* structured with optional Prompt and ToolUseResults).                     *)

\* the number of entries of a history
MaxHistory == 2

\* assistant values
AssistantValue(is_object, tool_use, response) ==
    [some |-> TRUE, is_object |-> is_object, ToolUse |-> tool_use, Response |-> response]
NoAssistant == [some |-> FALSE, is_object |-> FALSE, ToolUse |-> FALSE, Response |-> FALSE]
AssistantValues ==
    {NoAssistant, AssistantValue(FALSE, FALSE, FALSE), AssistantValue(TRUE, FALSE, FALSE),
     AssistantValue(TRUE, TRUE, FALSE), AssistantValue(TRUE, FALSE, TRUE),
     AssistantValue(TRUE, TRUE, TRUE)}

\* user entries: content is "None", "Other" or "Structured"; Prompt is "None",
\* "NoText" (Prompt without prompt) or "Text"
UserEntry(content, prompt, tool_use_results) ==
    [some |-> TRUE, content |-> content, prompt |-> prompt,
     tool_use_results |-> tool_use_results]
NoUser == [some |-> FALSE, content |-> None, prompt |-> None, tool_use_results |-> FALSE]
UserValues ==
    {NoUser, UserEntry(None, None, FALSE), UserEntry("Other", None, FALSE),
     UserEntry("Structured", None, FALSE), UserEntry("Structured", "Text", FALSE),
     UserEntry("Structured", "NoText", FALSE), UserEntry("Structured", None, TRUE),
     UserEntry("Structured", "Text", TRUE)}

HistoryEntries == [assistant : AssistantValues, user : UserValues]

\* (StatusState, StatusDetail, summary): the summary by the function or the
\* literal it comes from
KiroResult(state, detail, summary) ==
    [parsed |-> TRUE, state |-> state, state_detail |-> detail, summary |-> summary]

\* determine_status_from_entry that looks for Response before ToolUse
determine_status_from_entry_response_first(entry) ==
    IF entry.assistant.some /\ entry.assistant.is_object /\ entry.assistant.Response
    THEN KiroResult("Completed", "Success", "extract_response_summary")
    ELSE IF entry.assistant.some /\ entry.assistant.is_object /\ entry.assistant.ToolUse
    THEN KiroResult("Waiting", "Confirmation", "extract_tool_use_summary")
    ELSE IF entry.user.some /\ entry.user.content = "Structured"
            /\ entry.user.tool_use_results
    THEN KiroResult("Working", "ExecutingTool", "Running tools...")
    ELSE IF entry.user.some /\ entry.user.content = "Structured" /\ entry.user.prompt # None
    THEN KiroResult("Working", "Thinking",
                    IF entry.user.prompt = "Text" THEN "truncate_str" ELSE "Thinking...")
    ELSE KiroResult("Working", "Thinking", "Processing...")

\* KiroSqliteFetcher::determine_status_from_entry
determine_status_from_entry(entry) ==
    IF entry.assistant.some /\ entry.assistant.is_object /\ entry.assistant.ToolUse
    THEN KiroResult("Waiting", "Confirmation", "extract_tool_use_summary")
    ELSE IF entry.assistant.some /\ entry.assistant.is_object /\ entry.assistant.Response
    THEN KiroResult("Completed", "Success", "extract_response_summary")
    ELSE IF entry.user.some /\ entry.user.content = "Structured"
            /\ entry.user.tool_use_results
    THEN KiroResult("Working", "ExecutingTool", "Running tools...")
    ELSE IF entry.user.some /\ entry.user.content = "Structured" /\ entry.user.prompt # None
    THEN KiroResult("Working", "Thinking",
                    IF entry.user.prompt = "Text" THEN "truncate_str" ELSE "Thinking...")
    ELSE KiroResult("Working", "Thinking", "Processing...")

\* KiroSqliteFetcher::parse_conversation_value for a value that deserialises
parse_conversation_value(history) ==
    IF history = <<>> THEN KiroResult("Idle", "Inactive", None)
    ELSE determine_status_from_entry(history[Len(history)])

KiroInit ==
    /\ \E n \in 0..MaxHistory : kiro_history \in [1..n -> HistoryEntries]
    /\ kiro_status = [parsed |-> FALSE]
    /\ jsonl_lines = [read_start |-> 0, lines |-> <<>>]
    /\ jsonl_state = [parsed |-> FALSE]
    /\ workspaces = <<>>
    /\ sessions = <<>>
    /\ session_map = <<>>
    /\ sessions_by_workspace = <<>>
    /\ registered_path = <<>>
    /\ last_op = [type |-> "scan_workspaces", external_id |-> None, project_path |-> None,
                  status |-> None, found |-> 0, was_known |-> FALSE]
    /\ panicked = FALSE
    /\ tree_items = <<>>
    /\ TickParked
    /\ ChanParked
    /\ PollParked
    /\ NotifyParked
    /\ TreeParked
    /\ MuxParked

\* get_all_statuses_with_conn: the value of a row is parsed
ParseConversation ==
    /\ ~kiro_status.parsed
    /\ kiro_status' = parse_conversation_value(kiro_history)
    /\ UNCHANGED <<kiro_history, jsonl_lines, jsonl_state, treeVars, muxVars, aggVars, tickVars,
                   chanVars, pollVars, notifyVars>>

KiroNext == ParseConversation

SpecKiro == KiroInit /\ [][KiroNext]_vars

\* the assistant value of the entry is an object with this key
AssistantContains(entry, key) ==
    /\ entry.assistant.some
    /\ entry.assistant.is_object
    /\ IF key = "ToolUse" THEN entry.assistant.ToolUse ELSE entry.assistant.Response

\* the structured user content of the entry has this key
UserContentHas(entry, key) ==
    /\ entry.user.some
    /\ entry.user.content = "Structured"
    /\ IF key = "ToolUseResults" THEN entry.user.tool_use_results
       ELSE entry.user.prompt # None

set_selected_index(st, index) == [st EXCEPT !.selected_index = index]

\* AppState::move_up
move_up(st) ==
    IF st.tree_items # <<>> /\ st.selected_index > 1
    THEN set_selected_index(st, st.selected_index - 1)
    ELSE st

\* AppState::move_down
move_down(st) ==
    IF st.tree_items # <<>> /\ st.selected_index < Len(st.tree_items)
    THEN set_selected_index(st, st.selected_index + 1)
    ELSE st

\* AppState::find_repo_key_for_path
find_repo_key_for_path(st, repo_path) ==
    LET hits == {i \in 1..Len(st.workspaces) : st.workspaces[i] = repo_path}
    IN  IF hits = {} THEN repo_path
        ELSE get_repo_key(st.workspaces[CHOOSE i \in hits : \A j \in hits : i <= j])

\* AppState::find_parent_repo_group_index, 0 for None
find_parent_repo_group_index(st) ==
    LET above == {i \in 1..(st.selected_index - 1) :
                     i <= Len(st.tree_items) /\ st.tree_items[i].kind = "RepoGroup"}
    IN  IF above = {} THEN 0 ELSE CHOOSE i \in above : \A j \in above : j <= i

\* AppState::move_to_parent_repo_group
move_to_parent_repo_group(st) ==
    IF find_parent_repo_group_index(st) # 0
    THEN set_selected_index(st, find_parent_repo_group_index(st))
    ELSE st

\* tree_items.get(selected_index) is Some
HasSelected(st) == st.selected_index \in 1..Len(st.tree_items)

\* AppState::toggle_expand
toggle_expand(st) ==
    IF ~HasSelected(st) THEN st
    ELSE LET item == st.tree_items[st.selected_index]
         IN  IF item.kind = "RepoGroup"
             THEN IF item.expanded
                  THEN [st EXCEPT !.collapsed_repos = @ \cup {item.path}]
                  ELSE [st EXCEPT !.collapsed_repos = @ \ {item.path}]
             ELSE IF item.kind = "RemoteBranchGroup"
             THEN LET repo_key == find_repo_key_for_path(st, item.repo_path)
                  IN  IF item.expanded
                      THEN [st EXCEPT !.expanded_remote_branches = @ \ {repo_key}]
                      ELSE [st EXCEPT !.expanded_remote_branches = @ \cup {repo_key}]
             ELSE st

\* AppState::expand
expand(st) ==
    IF ~HasSelected(st) THEN st
    ELSE LET item == st.tree_items[st.selected_index]
         IN  IF item.kind = "RepoGroup"
             THEN IF ~item.expanded
                  THEN [st EXCEPT !.collapsed_repos = @ \ {item.path}]
                  ELSE st
             ELSE IF item.kind = "RemoteBranchGroup"
             THEN IF ~item.expanded
                  THEN [st EXCEPT !.expanded_remote_branches =
                                      @ \cup {find_repo_key_for_path(st, item.repo_path)}]
                  ELSE st
             ELSE move_to_parent_repo_group(st)

\* AppState::collapse
collapse(st) ==
    IF ~HasSelected(st) THEN st
    ELSE LET item == st.tree_items[st.selected_index]
             parent_idx == find_parent_repo_group_index(st)
         IN  IF item.kind = "RepoGroup"
             THEN IF item.expanded
                  THEN [st EXCEPT !.collapsed_repos = @ \cup {item.path}]
                  ELSE st
             ELSE IF item.kind = "RemoteBranchGroup"
             THEN IF item.expanded
                  THEN [st EXCEPT !.expanded_remote_branches =
                                      @ \ {find_repo_key_for_path(st, item.repo_path)}]
                  ELSE move_to_parent_repo_group(st)
             ELSE IF parent_idx # 0
             THEN [set_selected_index(st, parent_idx) EXCEPT
                      !.collapsed_repos = @ \cup {st.tree_items[parent_idx].path}]
             ELSE st

\* ListDisplayMode::next
next(mode) == IF mode = "Worktrees" THEN "WithBranches" ELSE "Worktrees"

\* AppState::toggle_display_mode
toggle_display_mode(st) == [st EXCEPT !.list_display_mode = next(@)]

\* the checkouts of this specification: one of the repository b and two of the
\* repository a
TreeS == <<"/", "a", "/", "b">>
TreeW == <<"/", "b", "/", "a">>
TreeX == <<"/", "h", "/", "a">>
TreePaths == {TreeS, TreeW, TreeX}
\* the checkout notify clients register sessions for
TreeProjectPaths == {TreeX}

\* the WorktreeManager over what git lists (sorted, as list_local_branches and
\* list_remote_branches return it) and its max_remote_branches
Manager(local, remote, max_remote_branches) ==
    [present |-> TRUE, local |-> local, remote |-> remote,
     max_remote_branches |-> max_remote_branches]
TreeManagers ==
    {Manager(TreeW :> <<<<"d">>, <<"f">>, <<"m">>>> @@ TreeS :> <<<<"m">>>>,
             TreeW :> <<<<"G", "x">>, <<"d">>, <<"h">>, <<"k">>>>, 2),
     Manager(TreeW :> <<<<"f">>, <<"m">>>> @@ TreeS :> <<<<"d">>, <<"m">>>>,
             TreeW :> <<<<"G", "x">>>>, 0)}

\* the filter the user can type
TreeFilters == {Some(<<"g">>)}

InstallView(st) ==
    /\ collapsed_repos' = st.collapsed_repos
    /\ expanded_remote_branches' = st.expanded_remote_branches
    /\ selected_index' = st.selected_index
    /\ list_display_mode' = st.list_display_mode
    /\ branch_filter' = st.branch_filter

\* the kind of the selected row
SelectedKind == IF HasSelected(AppState) THEN tree_items[selected_index].kind ELSE None

\* run_tui: the first scan_workspaces and rebuild_tree_with_manager
TreeInit ==
    /\ workspaces = SortedByPath(TreePaths)
    /\ manager \in TreeManagers
    /\ sessions = <<>>
    /\ session_map = <<>>
    /\ sessions_by_workspace = <<>>
    /\ registered_path = <<>>
    /\ last_op = [type |-> "scan_workspaces", external_id |-> None, project_path |-> None,
                  status |-> None, found |-> 0, was_known |-> FALSE]
    /\ panicked = FALSE
    /\ collapsed_repos = {}
    /\ expanded_remote_branches = {}
    /\ selected_index = 1
    /\ list_display_mode = "Worktrees"
    /\ branch_filter = NoneStr
    /\ tree_items = rebuild_tree_with_manager(NewState(workspaces), manager).tree_items
    /\ ui_op = [type |-> "new", kind |-> None, rebuilt |-> TRUE]
    /\ jsonl_lines = [read_start |-> 0, lines |-> <<>>]
    /\ jsonl_state = [parsed |-> FALSE]
    /\ kiro_history = <<>>
    /\ kiro_status = [parsed |-> FALSE]
    /\ MuxParked
    /\ TickParked
    /\ ChanParked
    /\ PollParked
    /\ NotifyParked

\* a key handler that leaves the session table alone
KeyHandler(type, st, rebuilt) ==
    /\ InstallView(st)
    /\ tree_items' = st.tree_items
    /\ ui_op' = [type |-> type, kind |-> SelectedKind, rebuilt |-> rebuilt]
    /\ UNCHANGED <<workspaces, sessions, session_map, sessions_by_workspace, registered_path,
                   last_op, panicked, manager, jsonl_lines, jsonl_state, kiro_history,
                   kiro_status, muxVars, tickVars, chanVars, pollVars, notifyVars>>

\* handle_action(Action::MoveUp)
MoveUp == KeyHandler("MoveUp", move_up(AppState), FALSE)

\* handle_action(Action::MoveDown)
MoveDown == KeyHandler("MoveDown", move_down(AppState), FALSE)

\* handle_action(Action::ToggleExpand)
ToggleExpand == KeyHandler("ToggleExpand", toggle_expand(AppState), FALSE)

\* handle_action(Action::ToggleDisplayMode)
ToggleDisplayMode ==
    KeyHandler("ToggleDisplayMode",
               rebuild_tree_with_manager(toggle_display_mode(AppState), manager), TRUE)

\* handle_input_event: Enter in the FilterBranches dialog
FilterBranches ==
    \E filter \in TreeFilters :
        KeyHandler("FilterBranches",
                   rebuild_tree_with_manager([AppState EXCEPT !.branch_filter = filter],
                                             manager), TRUE)

\* handle_action(Action::ClearFilter)
ClearFilter ==
    KeyHandler("ClearFilter",
               rebuild_tree_with_manager([AppState EXCEPT !.branch_filter = NoneStr], manager),
               TRUE)

\* AppState::expand followed by the rebuild_tree_with_manager its caller owes
Expand == KeyHandler("Expand", rebuild_tree_with_manager(expand(AppState), manager), TRUE)

\* AppState::collapse followed by the rebuild_tree_with_manager its caller owes
Collapse == KeyHandler("Collapse", rebuild_tree_with_manager(collapse(AppState), manager), TRUE)

\* run_app: handle_notify_event(SessionRegister) for a drained event
TreeRegister ==
    /\ ~panicked
    /\ \E e \in ExtIds, p \in TreeProjectPaths, tool \in RegisterTools :
           Install(handle_notify_event(AppState, SessionRegister(e, p, tool, None)))
    /\ ui_op' = [type |-> "SessionRegister", kind |-> SelectedKind, rebuilt |-> TRUE]
    /\ UNCHANGED <<last_op, collapsed_repos, expanded_remote_branches, selected_index,
                   list_display_mode, branch_filter, manager, jsonl_lines, jsonl_state,
                   kiro_history, kiro_status, muxVars, tickVars, chanVars, pollVars,
                   notifyVars>>

TreeNext ==
    \/ MoveUp
    \/ MoveDown
    \/ ToggleExpand
    \/ ToggleDisplayMode
    \/ FilterBranches
    \/ ClearFilter
    \/ Expand
    \/ Collapse
    \/ TreeRegister

SpecTree == TreeInit /\ [][TreeNext]_vars

\* the rows of the RepoGroups, and the last row of the group that starts at i
GroupStarts == {i \in 1..Len(tree_items) : tree_items[i].kind = "RepoGroup"}
SegmentEnd(i) ==
    LET later == {j \in GroupStarts : j > i}
    IN  IF later = {} THEN Len(tree_items) ELSE (CHOOSE j \in later : \A k \in later : j <= k) - 1
Children(i) == SubSeq(tree_items, i + 1, SegmentEnd(i))

\* what a row shows: its kind and the workspace or session it stands for
Shown(row) ==
    IF row.kind = "Worktree" THEN <<"Worktree", row.workspace_index>>
    ELSE IF row.kind = "Session" THEN <<"Session", row.session_index>>
    ELSE <<row.kind, 0>>

RECURSIVE WorktreesShown(_, _)
\* each workspace of indices from position k on, followed by its sessions_for_workspace
WorktreesShown(indices, k) ==
    IF k > Len(indices) THEN <<>>
    ELSE LET listed == sessions_for_workspace(AppState, indices[k])
         IN  <<<<"Worktree", indices[k]>>>>
                 \o [n \in 1..Len(listed) |-> <<"Session", listed[n]>>]
                 \o WorktreesShown(indices, k + 1)

\* rows is a run of local Branch rows, then nothing or one RemoteBranchGroup
\* that is followed by as many remote Branch rows as it counts if it is
\* expanded and by nothing if it is not
BranchesShape(rows) ==
    \E nl \in 0..Len(rows) :
        /\ \A k \in 1..nl : rows[k].kind = "Branch" /\ rows[k].is_local
        /\ \/ nl = Len(rows)
           \/ /\ rows[nl + 1].kind = "RemoteBranchGroup"
              /\ \A k \in (nl + 2)..Len(rows) : rows[k].kind = "Branch" /\ ~rows[k].is_local
              /\ IF rows[nl + 1].expanded THEN Len(rows) - (nl + 1) = rows[nl + 1].count
                 ELSE Len(rows) = nl + 1

\* the repo keys of the workspaces, and the workspaces of a key in index order
RepoKeys == {get_repo_key(workspaces[w]) : w \in 1..Len(workspaces)}
WorkspacesOf(key) ==
    AscendingSeq({w \in 1..Len(workspaces) : get_repo_key(workspaces[w]) = key})

TreeShape ==
    LET starts == AscendingSeq(GroupStarts)
    IN  /\ tree_items # <<>> => tree_items[1].kind = "RepoGroup"
        /\ {tree_items[i].path : i \in GroupStarts} = RepoKeys
        /\ Len(starts) = Cardinality(RepoKeys)
        /\ \A k \in 1..(Len(starts) - 1) :
               PathLess(tree_items[starts[k]].path, tree_items[starts[k + 1]].path)
        /\ \A i \in GroupStarts :
               LET group == tree_items[i]
                   shown == WorktreesShown(WorkspacesOf(group.path), 1)
                   rows == Children(i)
               IN  /\ group.expanded = (group.path \notin collapsed_repos)
                   /\ ~group.expanded => rows = <<>>
                   /\ group.expanded =>
                          /\ Len(rows) >= Len(shown)
                          /\ \A k \in 1..Len(shown) : Shown(rows[k]) = shown[k]
                          /\ BranchesShape(SubSeq(rows, Len(shown) + 1, Len(rows)))
        /\ \A w \in 1..Len(workspaces) :
               /\ Cardinality({i \in GroupStarts :
                                  tree_items[i].path = get_repo_key(workspaces[w])}) = 1
               /\ Cardinality({i \in 1..Len(tree_items) :
                                  Shown(tree_items[i]) = <<"Worktree", w>>}) <= 1

\* C25: every rebuilt tree has one RepoGroup per repo key in ascending key
\* order; a collapsed group contributes its RepoGroup row alone; an expanded
\* group is followed by each of its workspaces as a Worktree row with exactly
\* its sessions_for_workspace behind it, then the local Branch rows, then at
\* most one RemoteBranchGroup, which its branches follow only if it is
\* expanded; and every workspace is under exactly one group.
C25_RebuiltTreeShape == ui_op.rebuilt => TreeShape

\* a rebuilt tree with a collapsed group and an expanded group of two
\* worktrees, a session, a local branch and an expanded RemoteBranchGroup
C25_Witness ==
    /\ ui_op.rebuilt
    /\ \E i \in GroupStarts : ~tree_items[i].expanded
    /\ \E i \in GroupStarts :
           /\ tree_items[i].expanded
           /\ tree_items[i].worktree_count = 2
           /\ \E k \in 1..Len(Children(i)) : Children(i)[k].kind = "Session"
           /\ \E k \in 1..Len(Children(i)) :
                  Children(i)[k].kind = "Branch" /\ Children(i)[k].is_local
           /\ \E k \in 1..Len(Children(i)) :
                  Children(i)[k].kind = "RemoteBranchGroup" /\ Children(i)[k].expanded

\* the depth of a row below the RepoGroup rows
Level(row) ==
    IF row.kind = "RepoGroup" THEN 0
    ELSE IF row.kind = "Session" THEN 2
    ELSE IF row.kind = "Branch" /\ ~row.is_local THEN 2
    ELSE 1

\* the parent of row i: the nearest row above it that is less deep, 0 if none
ParentOf(i) ==
    LET above == {j \in 1..(i - 1) : Level(tree_items[j]) < Level(tree_items[i])}
    IN  IF above = {} THEN 0 ELSE CHOOSE j \in above : \A k \in above : k <= j

LaterSibling(i) ==
    \E j \in (i + 1)..Len(tree_items) :
        /\ Level(tree_items[j]) = Level(tree_items[i])
        /\ ParentOf(j) = ParentOf(i)

\* C26: in every rebuilt tree the is_last flag of a row is true exactly if no
\* later row has the same parent (Worktree, local Branch and RemoteBranchGroup
\* rows under their RepoGroup, Session rows under their Worktree, remote Branch
\* rows under their RemoteBranchGroup), and the parent_is_last flag of a
\* Session row is the is_last flag of its Worktree.
C26_IsLastIffNoLaterSibling ==
    ui_op.rebuilt =>
        \A i \in 1..Len(tree_items) :
            LET row == tree_items[i]
            IN  /\ row.kind # "RepoGroup" => (row.is_last <=> ~LaterSibling(i))
                /\ row.kind = "Session" =>
                       /\ ParentOf(i) # 0
                       /\ tree_items[ParentOf(i)].kind = "Worktree"
                       /\ row.parent_is_last = tree_items[ParentOf(i)].is_last

\* a rebuilt tree with two sessions of one worktree, which local branches and
\* an expanded RemoteBranchGroup of two branches follow
C26_Witness ==
    /\ ui_op.rebuilt
    /\ \E i \in 1..Len(tree_items) :
           /\ tree_items[i].kind = "Session"
           /\ ~tree_items[i].is_last
           /\ i + 3 <= Len(tree_items)
           /\ tree_items[i + 1].kind = "Session"
           /\ tree_items[i + 2].kind = "Branch"
           /\ tree_items[i + 3].kind = "RemoteBranchGroup"
    /\ \E i \in 1..Len(tree_items) :
           /\ tree_items[i].kind = "Branch"
           /\ ~tree_items[i].is_local
           /\ ~tree_items[i].is_last

\* every RepoGroup row and every RemoteBranchGroup row shows the expansion
\* state of its group, and its child rows are there exactly if it is expanded
ExpansionReflected ==
    /\ \A i \in GroupStarts :
           /\ tree_items[i].expanded = (tree_items[i].path \notin collapsed_repos)
           /\ tree_items[i].expanded = (Children(i) # <<>>)
    /\ \A i \in 1..Len(tree_items) :
           tree_items[i].kind = "RemoteBranchGroup" =>
               /\ tree_items[i].expanded =
                      (find_repo_key_for_path(AppState, tree_items[i].repo_path)
                           \in expanded_remote_branches)
               /\ tree_items[i].expanded =
                      (i < Len(tree_items) /\ tree_items[i + 1].kind = "Branch")

\* C27: when the run_app loop renders next after an expand, collapse or toggle
\* on a RepoGroup or RemoteBranchGroup row, the tree has been rebuilt: the
\* expanded flag of every group and the presence of its child rows reflect the
\* expansion state.
C27_ExpansionRebuiltBeforeRender ==
    (ui_op.type \in {"Expand", "Collapse", "ToggleExpand"}
        /\ ui_op.kind \in {"RepoGroup", "RemoteBranchGroup"}) => ExpansionReflected

\* two rows stand for the same thing
SameRow(a, b) ==
    /\ a.kind = b.kind
    /\ CASE a.kind = "RepoGroup" -> a.path = b.path
         [] a.kind = "Worktree" -> a.workspace_index = b.workspace_index
         [] a.kind = "Session" -> a.session_index = b.session_index
         [] a.kind = "Branch" ->
                a.name = b.name /\ a.is_local = b.is_local /\ a.repo_path = b.repo_path
         [] OTHER -> a.repo_path = b.repo_path

\* C28: across an expand or collapse and the rebuild that follows it, the
\* selection stays on the row it was on if the tree still has that row, and
\* otherwise is on the RepoGroup row of the group the row was in.
C28_SelectionKeptOrOnParent ==
    [][(ui_op'.type \in {"Expand", "Collapse"} /\ HasSelected(AppState)) =>
          LET row == tree_items[selected_index]
              parent == find_parent_repo_group_index(AppState)
              now == IF selected_index' \in 1..Len(tree_items')
                     THEN tree_items'[selected_index']
                     ELSE [kind |-> None]
          IN  IF \E j \in 1..Len(tree_items') : SameRow(tree_items'[j], row)
              THEN SameRow(now, row)
              ELSE /\ parent # 0
                   /\ SameRow(now, tree_items[parent])]_vars

(***************************************************************************)
(* The multiplexer driver: open_workspace_window of the Zellij and of the  *)
(* tmux backend, each call a run of commands against the multiplexer,      *)
(* whose windows (tabs) are the state the commands read and change.  A     *)
(* window is its name and its @workspace-name option, "" when unset (always *)
(* unset for a Zellij tab).                                                *)
(***************************************************************************)

\* the number of open_workspace_window calls
MaxCalls == 2
Callers == 1..MaxCalls

\* the name every call opens, and the name of a window that is there already
WindowN == "n"
WindowOther == "m"

Window(name, workspace_name) == [name |-> name, workspace_name |-> workspace_name]

\* session_exists: `zellij list-sessions` names the session, `tmux has-session` succeeds
session_exists(mx) == mx.session_exists

\* ZellijMultiplexer::query_window_names: the lines of query-tab-names
query_window_names(mx) == [k \in 1..Len(mx.windows) |-> mx.windows[k].name]

\* `zellij action go-to-tab-name`: the tab that gets the focus, 0 if no tab
\* has the name
go_to_tab_name(mx, name) ==
    LET hits == {k \in 1..Len(mx.windows) : mx.windows[k].name = name}
    IN  IF hits = {} THEN 0 ELSE CHOOSE k \in hits : \A j \in hits : k <= j

\* find_window_by_workspace_name looking for the window_name instead
find_window_by_window_name(mx, name) ==
    LET hits == {k \in 1..Len(mx.windows) : mx.windows[k].name = name}
    IN  IF hits = {} THEN 0 ELSE CHOOSE k \in hits : \A j \in hits : k <= j

\* TmuxMultiplexer::find_window_by_workspace_name: the first window whose
\* @workspace-name is the name, 0 for None
find_window_by_workspace_name(mx, name) ==
    LET hits == {k \in 1..Len(mx.windows) : mx.windows[k].workspace_name = name}
    IN  IF hits = {} THEN 0 ELSE CHOOSE k \in hits : \A j \in hits : k <= j

\* open_workspace_window that never finds the window
window_exists_never(mx, name) == FALSE

\* open_workspace_window: a window for the name is there (tabs.iter().any for
\* Zellij, find_window_by_workspace_name(..).is_some() for tmux)
window_exists(mx, name) ==
    IF mx.backend = "zellij" THEN name \in Range(query_window_names(mx))
    ELSE find_window_by_workspace_name(mx, name) # 0

\* new_window that opens the window in place of the last one
new_window_in_place(mx, name) ==
    [mx EXCEPT !.windows = SubSeq(@, 1, Len(@) - 1) \o <<Window(name, "")>>]

\* new_window: `zellij action new-tab --name` or `tmux new-window -n`
new_window(mx, name) == [mx EXCEPT !.windows = Append(@, Window(name, ""))]

\* what `tmux set-window-option -t session:name @workspace-name name` can leave
\* behind: the option set on the one window of that name; with several windows
\* of the name the target is ambiguous and the command, whose status
\* new_window ignores, sets it on one of them or fails
set_window_option(mx, name) ==
    LET named == {k \in 1..Len(mx.windows) : mx.windows[k].name = name}
        set_on == {[mx EXCEPT !.windows[k].workspace_name = name] : k \in named}
    IN  IF Cardinality(named) = 1 THEN set_on ELSE set_on \cup {mx}

\* the windows for a name: the tabs of that name, the windows of that name or
\* of that @workspace-name
WindowsFor(mx, name) ==
    {k \in 1..Len(mx.windows) :
        mx.windows[k].name = name \/ mx.windows[k].workspace_name = name}

Idle == [pc |-> "idle", result |-> None, new_window_calls |-> 0, after |-> {},
         windows_at_start |-> 0, window_id |-> 0, selected |-> 0, created |-> 0]

\* the session the windows of which may hold a window for the name already
MuxInit ==
    /\ \E backend \in {"zellij", "tmux"}, alive \in BOOLEAN, before \in BOOLEAN :
           LET there == <<Window(WindowOther, "")>>
                            \o (IF before
                                THEN <<Window(WindowN, IF backend = "tmux" THEN WindowN ELSE "")>>
                                ELSE <<>>)
           IN  mux = [backend |-> backend, session_exists |-> alive, windows |-> there,
                      at_start |-> there, renamed |-> <<>>]
    /\ calls = [c \in Callers |-> Idle]
    /\ GitParked
    /\ workspaces = <<>>
    /\ sessions = <<>>
    /\ session_map = <<>>
    /\ sessions_by_workspace = <<>>
    /\ registered_path = <<>>
    /\ last_op = [type |-> "scan_workspaces", external_id |-> None, project_path |-> None,
                  status |-> None, found |-> 0, was_known |-> FALSE]
    /\ panicked = FALSE
    /\ tree_items = <<>>
    /\ jsonl_lines = [read_start |-> 0, lines |-> <<>>]
    /\ jsonl_state = [parsed |-> FALSE]
    /\ kiro_history = <<>>
    /\ kiro_status = [parsed |-> FALSE]
    /\ TreeParked
    /\ TickParked
    /\ ChanParked
    /\ PollParked
    /\ NotifyParked

MuxRest == <<jsonl_lines, jsonl_state, kiro_history, kiro_status, treeVars, gitVars, aggVars,
             tickVars, chanVars, pollVars, notifyVars>>

\* open_workspace_window is called (the session name is configured)
OpenBegin(c) ==
    /\ calls[c].pc = "idle"
    /\ calls' = [calls EXCEPT ![c] =
                    [@ EXCEPT !.pc = "session_exists",
                              !.after = {d \in Callers : calls[d].pc = "done"},
                              !.windows_at_start = Cardinality(WindowsFor(mux, WindowN))]]
    /\ UNCHANGED <<mux, MuxRest>>

\* open_workspace_window: session_exists, SessionNotFound if it does not
SessionExists(c) ==
    /\ calls[c].pc = "session_exists"
    /\ calls' = [calls EXCEPT ![c] =
                    IF session_exists(mux) THEN [@ EXCEPT !.pc = "query"]
                    ELSE [@ EXCEPT !.pc = "done", !.result = "SessionNotFound"]]
    /\ UNCHANGED <<mux, MuxRest>>

\* open_workspace_window: the windows are listed and searched for the name
QueryWindows(c) ==
    /\ calls[c].pc = "query"
    /\ calls' = [calls EXCEPT ![c] =
                    [@ EXCEPT !.pc = IF window_exists(mux, WindowN) THEN "go_to_window"
                                     ELSE "new_window",
                              !.window_id = IF mux.backend = "tmux"
                                            THEN find_window_by_workspace_name(mux, WindowN)
                                            ELSE 0]]
    /\ UNCHANGED <<mux, MuxRest>>

\* open_workspace_window: go_to_window (an Err if the tab is gone) for Zellij,
\* select-window with its status ignored for tmux
GoToWindow(c) ==
    /\ calls[c].pc = "go_to_window"
    /\ calls' = [calls EXCEPT ![c] =
                    [@ EXCEPT !.pc = "done",
                              !.result = IF mux.backend = "zellij"
                                            /\ WindowN \notin Range(query_window_names(mux))
                                         THEN "Err" ELSE "SwitchedToExisting",
                              !.selected = IF mux.backend = "zellij"
                                           THEN go_to_tab_name(mux, WindowN)
                                           ELSE calls[c].window_id]]
    /\ UNCHANGED <<mux, MuxRest>>

\* open_workspace_window: new_window; the tmux one goes on to set the options
NewWindow(c) ==
    /\ calls[c].pc = "new_window"
    /\ mux' = new_window(mux, WindowN)
    /\ calls' = [calls EXCEPT ![c] =
                    IF mux.backend = "zellij"
                    THEN [@ EXCEPT !.pc = "done", !.result = "CreatedNew",
                                   !.new_window_calls = @ + 1,
                                   !.created = Len(mux.windows) + 1]
                    ELSE [@ EXCEPT !.pc = "set_window_option", !.new_window_calls = @ + 1,
                                   !.created = Len(mux.windows) + 1]]
    /\ UNCHANGED MuxRest

\* TmuxMultiplexer::new_window: @workspace-name is set (and automatic-rename
\* switched off), whatever the commands return
SetWindowOption(c) ==
    /\ calls[c].pc = "set_window_option"
    /\ mux' \in set_window_option(mux, WindowN)
    /\ calls' = [calls EXCEPT ![c] = [@ EXCEPT !.pc = "done", !.result = "CreatedNew"]]
    /\ UNCHANGED MuxRest

MuxNext ==
    \E c \in Callers :
        \/ OpenBegin(c)
        \/ SessionExists(c)
        \/ QueryWindows(c)
        \/ GoToWindow(c)
        \/ NewWindow(c)
        \/ SetWindowOption(c)

SpecMux == MuxInit /\ [][MuxNext]_vars

\* C29: for either backend, when the session exists, no window for N exists and
\* nothing else acts on the multiplexer, the first of two successive
\* open_workspace_window(N) calls returns CreatedNew, the second returns
\* SwitchedToExisting without a new-window command, and exactly one window for
\* N exists afterwards.
C29_SecondOpenSwitches ==
    \A a \in Callers, b \in Callers :
        (/\ session_exists(mux)
         /\ calls[a].pc = "done"
         /\ calls[b].pc = "done"
         /\ calls[a].windows_at_start = 0
         /\ calls[a].after = {}
         /\ calls[b].after = {a}
         /\ \A c \in Callers \ {a, b} : calls[c].pc = "idle") =>
            /\ calls[a].result = "CreatedNew"
            /\ calls[b].result = "SwitchedToExisting"
            /\ calls[b].new_window_calls = 0
            /\ Cardinality(WindowsFor(mux, WindowN)) = 1

\* with tmux, a call that began after another had created the window for N has
\* switched to it
C29_Witness ==
    /\ mux.backend = "tmux"
    /\ \E a \in Callers, b \in Callers :
           /\ calls[a].result = "CreatedNew"
           /\ calls[a].windows_at_start = 0
           /\ calls[b].after = {a}
           /\ calls[b].result = "SwitchedToExisting"

\* the calls that were made have all returned
Returned == {c \in Callers : calls[c].pc = "done"}
AllReturned == Returned # {} /\ \A c \in Callers : calls[c].pc \in {"idle", "done"}

\* the windows of other names, in order
OtherWindows(windows) ==
    FilterSeq(windows, [w \in Range(windows) |->
                           w.name # WindowN /\ w.workspace_name # WindowN])

\* C30: when k calls of open_workspace_window(N) on an existing session have
\* interleaved in any way and returned, each has returned CreatedNew or
\* SwitchedToExisting, between one and k windows for N exist, and the windows
\* of other names are those there were before.
C30_RacingOpensAreBenign ==
    (session_exists(mux) /\ AllReturned) =>
        /\ \A c \in Returned : calls[c].result \in {"CreatedNew", "SwitchedToExisting"}
        /\ Cardinality(WindowsFor(mux, WindowN)) \in 1..Cardinality(Returned)
        /\ OtherWindows(mux.windows) = OtherWindows(mux.at_start)

\* two calls that both found no window for N have both created one
C30_Witness ==
    /\ AllReturned
    /\ \E a \in Callers, b \in Callers :
           /\ a # b
           /\ calls[a].result = "CreatedNew"
           /\ calls[b].result = "CreatedNew"
    /\ Cardinality(WindowsFor(mux, WindowN)) = 2

\* the name the user gives a window
WindowRenamed == "r"

\* the user renames a window for N that has not been renamed (`tmux
\* rename-window`, or the rename of a Zellij tab): its @workspace-name stays
UserRename ==
    /\ \E k \in 1..Len(mux.windows) :
           /\ mux.windows[k].name = WindowN
           /\ mux' = [mux EXCEPT !.windows[k].name = WindowRenamed,
                                 !.renamed = Append(@,
                                     [window |-> k,
                                      returned |-> {c \in Callers : calls[c].pc = "done"},
                                      idle |-> {c \in Callers : calls[c].pc = "idle"}])]
    /\ UNCHANGED <<calls, MuxRest>>

RenameNext == MuxNext \/ UserRename

SpecRename == MuxInit /\ [][RenameNext]_vars

\* the window call a created was renamed after a had returned and before b began
RenamedBetween(a, b) ==
    \E n \in 1..Len(mux.renamed) :
        /\ mux.renamed[n].window = calls[a].created
        /\ a \in mux.renamed[n].returned
        /\ b \in mux.renamed[n].idle

\* C31: with tmux, after an open_workspace_window(N) has created a window and
\* the user has renamed that window, a further open_workspace_window(N)
\* returns SwitchedToExisting, selects that window and creates none.
C31_ReopenAfterRenameSwitches ==
    \A a \in Callers, b \in Callers :
        (/\ mux.backend = "tmux"
         /\ calls[a].pc = "done"
         /\ calls[a].result = "CreatedNew"
         /\ calls[a].after = {}
         /\ calls[b].pc = "done"
         /\ calls[b].after = {a}
         /\ RenamedBetween(a, b)
         /\ \A c \in Callers \ {a, b} : calls[c].pc = "idle") =>
            /\ calls[b].result = "SwitchedToExisting"
            /\ calls[b].selected = calls[a].created
            /\ calls[b].new_window_calls = 0
            /\ Len(mux.windows) = Len(mux.at_start) + 1

\* with tmux, a call has switched to the window another call created and the
\* user then renamed
C31_Witness ==
    /\ mux.backend = "tmux"
    /\ \E a \in Callers, b \in Callers :
           /\ calls[a].result = "CreatedNew"
           /\ RenamedBetween(a, b)
           /\ calls[b].result = "SwitchedToExisting"
           /\ calls[b].selected = calls[a].created
           /\ mux.windows[calls[a].created].name = WindowRenamed

\* ---------------------------------------------------------------------------
\* WorktreeManager::create_worktree (workspace/manager.rs)

StartPoint == <<"s">>

\* everything but the create_worktree call
GitRest == <<aggVars, tickVars, chanVars, pollVars, notifyVars, jsonl_lines, jsonl_state,
             kiro_history, kiro_status, treeVars, mux, calls, scanned, rt>>

\* `git worktree add` as run_git_worktree_add builds it
run_git_worktree_add(create_branch, start_point) ==
    IF create_branch
    THEN [git |-> "worktree add -b <branch> <path>", start_point |-> start_point]
    ELSE [git |-> "worktree add <path> <branch>", start_point |-> NoneStr]

\* `git worktree add --track -b <branch> <path> <remote>/<branch>`
run_git_worktree_add_tracking ==
    [git |-> "worktree add --track -b <branch> <path> <remote>/<branch>", start_point |-> NoneStr]

\* create_worktree is called on a repository and a file system in any condition
WorktreeInit ==
    /\ \E repo_opens \in BOOLEAN, path_exists \in BOOLEAN, branch_exists \in BOOLEAN,
          remote_branch_exists \in BOOLEAN, create_branch \in BOOLEAN,
          start_point \in {NoneStr, Some(StartPoint)}, git_succeeds \in BOOLEAN :
           worktree = [pc |-> "open", repo_opens |-> repo_opens, path_exists |-> path_exists,
                       branch_exists |-> branch_exists,
                       remote_branch_exists |-> remote_branch_exists,
                       create_branch |-> create_branch, start_point |-> start_point,
                       git_succeeds |-> git_succeeds, commands |-> <<>>,
                       created_parent |-> FALSE, result |-> None]
    /\ scanned = <<>>
    /\ RtParked
    /\ mux = [backend |-> None, session_exists |-> FALSE, windows |-> <<>>, at_start |-> <<>>,
              renamed |-> <<>>]
    /\ calls = <<>>
    /\ workspaces = <<>>
    /\ sessions = <<>>
    /\ session_map = <<>>
    /\ sessions_by_workspace = <<>>
    /\ registered_path = <<>>
    /\ last_op = [type |-> "scan_workspaces", external_id |-> None, project_path |-> None,
                  status |-> None, found |-> 0, was_known |-> FALSE]
    /\ panicked = FALSE
    /\ tree_items = <<>>
    /\ jsonl_lines = [read_start |-> 0, lines |-> <<>>]
    /\ jsonl_state = [parsed |-> FALSE]
    /\ kiro_history = <<>>
    /\ kiro_status = [parsed |-> FALSE]
    /\ TreeParked
    /\ TickParked
    /\ ChanParked
    /\ PollParked
    /\ NotifyParked

\* Repository::open(repo_path), find_remote, generate_worktree_path
OpenRepository ==
    /\ worktree.pc = "open"
    /\ worktree' = IF worktree.repo_opens
                   THEN [worktree EXCEPT !.pc = "exists"]
                   ELSE [worktree EXCEPT !.pc = "done",
                                         !.result = "Failed to open repository"]
    /\ UNCHANGED GitRest

\* worktree_path.exists(), then create_dir_all(parent)
CheckPath ==
    /\ worktree.pc = "exists"
    /\ worktree' = IF worktree.path_exists
                   THEN [worktree EXCEPT !.pc = "done",
                                         !.result = "Worktree path already exists"]
                   ELSE [worktree EXCEPT !.pc = "branch", !.created_parent = TRUE]
    /\ UNCHANGED GitRest

\* the if / else-if chain of create_worktree over branch_exists,
\* remote_branch_exists and create_branch: the command it runs, None for the bail
choose_command(w) ==
    IF w.create_branch /\ ~w.branch_exists THEN run_git_worktree_add(TRUE, w.start_point)
    ELSE IF w.branch_exists THEN run_git_worktree_add(FALSE, NoneStr)
    ELSE IF w.remote_branch_exists THEN run_git_worktree_add_tracking
    ELSE [git |-> None, start_point |-> NoneStr]

\* find_branch local and remote, then the chosen git command and its status
RunGit ==
    /\ worktree.pc = "branch"
    /\ LET command == choose_command(worktree)
       IN  worktree' =
               IF command.git = None
               THEN [worktree EXCEPT !.pc = "done", !.result = "Branch does not exist"]
               ELSE [worktree EXCEPT !.pc = "done",
                                     !.commands = Append(@, command),
                                     !.result = IF worktree.git_succeeds
                                                THEN "Ok" ELSE "git worktree add failed"]
    /\ UNCHANGED GitRest

\* the caller looks at the result
WorktreeReturned ==
    /\ worktree.pc = "done"
    /\ worktree' = [worktree EXCEPT !.pc = "returned"]
    /\ UNCHANGED GitRest

WorktreeNext == OpenRepository \/ CheckPath \/ RunGit \/ WorktreeReturned

SpecWorktree == WorktreeInit /\ [][WorktreeNext]_vars

\* the one action the documented order picks
DocumentedCommand(w) ==
    IF w.branch_exists THEN "worktree add <path> <branch>"
    ELSE IF w.remote_branch_exists
         THEN "worktree add --track -b <branch> <path> <remote>/<branch>"
    ELSE IF w.create_branch THEN "worktree add -b <branch> <path>"
    ELSE None

\* C32: create_worktree fails for an existing target path before any git
\* command; otherwise it runs exactly the one command picked in the order local
\* branch, remote branch, create_branch (with the start-point), else fails, and
\* create_branch has no say between the first two.
C32_ActionChosenInOrder ==
    (worktree.pc \in {"done", "returned"} /\ worktree.repo_opens) =>
        IF worktree.path_exists
        THEN worktree.commands = <<>> /\ worktree.result = "Worktree path already exists"
        ELSE IF DocumentedCommand(worktree) = None
             THEN worktree.commands = <<>> /\ worktree.result = "Branch does not exist"
             ELSE /\ Len(worktree.commands) = 1
                  /\ worktree.commands[1].git = DocumentedCommand(worktree)
                  /\ worktree.commands[1].start_point =
                         (IF DocumentedCommand(worktree) = "worktree add -b <branch> <path>"
                          THEN worktree.start_point ELSE NoneStr)

\* what holds of the choice: an existing target path fails before any command,
\* at most one command runs, and without create_branch the documented order
\* is the order taken
ChoiceWithoutCreateBranch ==
    (worktree.pc \in {"done", "returned"} /\ worktree.repo_opens) =>
        /\ Len(worktree.commands) <= 1
        /\ worktree.path_exists =>
               worktree.commands = <<>> /\ worktree.result = "Worktree path already exists"
        /\ (~worktree.path_exists /\ (~worktree.create_branch \/ worktree.branch_exists)) =>
               IF DocumentedCommand(worktree) = None
               THEN worktree.commands = <<>>
               ELSE worktree.commands[1].git = DocumentedCommand(worktree)

\* ---------------------------------------------------------------------------
\* The repo key of scanned directories (workspace/worktree.rs, app/state.rs)

MaxNameLen == 4

Separator == <<"_", "_">>

\* str::find("__"): the first position the separator starts at, 0 for None
find(s) ==
    LET hits == {k \in 1..(Len(s) - 1) : SubSeq(s, k, k + 1) = Separator}
    IN  IF hits = {} THEN 0 ELSE CHOOSE k \in hits : \A j \in hits : k <= j

\* str::rfind("__"): the last position the separator starts at, 0 for None
rfind(s) ==
    LET hits == {k \in 1..(Len(s) - 1) : SubSeq(s, k, k + 1) = Separator}
    IN  IF hits = {} THEN 0 ELSE CHOOSE k \in hits : \A j \in hits : j <= k

\* extract_worktree_info: WorktreeInfo.repo_name of a directory, which
\* From<WorktreeInfo> hands to Workspace::new unchanged
repo_name_of(dir_name) ==
    IF find(dir_name) # 0 THEN SubSeq(dir_name, 1, find(dir_name) - 1) ELSE dir_name

\* AppState::get_repo_key of a workspace with that repo_name whose .git is a
\* directory, or a file `gitdir: <parent>/.git/worktrees/<name>` (parent_name
\* is the file name of <parent>), or a file of other content
get_repo_key_of(repo_name, dot_git) ==
    LET idx == rfind(repo_name)
    IN  IF idx # 0 /\ SubSeq(repo_name, 1, idx - 1) # <<>>
        THEN SubSeq(repo_name, 1, idx - 1)
        ELSE IF dot_git.kind = "gitdir" THEN dot_git.parent_name
        ELSE repo_name

RECURSIVE NamesOfLen(_)
NamesOfLen(n) ==
    IF n = 0 THEN {<<>>}
    ELSE {Append(w, c) : w \in NamesOfLen(n - 1), c \in {"a", "_"}}

\* the names of repository directories
RepoNames == UNION {NamesOfLen(n) : n \in 1..MaxNameLen}

\* the sanitised branch names a worktree directory ends with
BranchNames == {<<"a">>, <<"a", "_", "_", "a">>}

GitDirectory == [kind |-> "directory", parent_name |-> <<>>]

GitFile(parent_name) == [kind |-> "gitdir", parent_name |-> parent_name]

Directory(dir_name, dot_git) ==
    [dir_name |-> dir_name, dot_git |-> dot_git, repo_name |-> None, repo_key |-> None]

ScanRest == <<aggVars, tickVars, chanVars, pollVars, notifyVars, jsonl_lines, jsonl_state,
              kiro_history, kiro_status, treeVars, mux, calls, worktree, rt>>

\* a repository directory R and next to it the directory R__x of
\* generate_worktree_path, which is a worktree of R or a checkout of its own
ScanInit ==
    /\ \E R \in RepoNames, x \in BranchNames, linked \in BOOLEAN :
           scanned = <<Directory(R, GitDirectory),
                       Directory(R \o Separator \o x,
                                 IF linked THEN GitFile(R) ELSE GitDirectory)>>
    /\ worktree = [pc |-> "none"]
    /\ RtParked
    /\ mux = [backend |-> None, session_exists |-> FALSE, windows |-> <<>>, at_start |-> <<>>,
              renamed |-> <<>>]
    /\ calls = <<>>
    /\ workspaces = <<>>
    /\ sessions = <<>>
    /\ session_map = <<>>
    /\ sessions_by_workspace = <<>>
    /\ registered_path = <<>>
    /\ last_op = [type |-> "scan_workspaces", external_id |-> None, project_path |-> None,
                  status |-> None, found |-> 0, was_known |-> FALSE]
    /\ panicked = FALSE
    /\ tree_items = <<>>
    /\ jsonl_lines = [read_start |-> 0, lines |-> <<>>]
    /\ jsonl_state = [parsed |-> FALSE]
    /\ kiro_history = <<>>
    /\ kiro_status = [parsed |-> FALSE]
    /\ TreeParked
    /\ TickParked
    /\ ChanParked
    /\ PollParked
    /\ NotifyParked

\* detect_worktrees: extract_worktree_info of one directory
ExtractWorktreeInfo ==
    \E k \in 1..Len(scanned) :
        /\ scanned[k].repo_name = None
        /\ scanned' = [scanned EXCEPT ![k].repo_name = repo_name_of(scanned[k].dir_name)]
        /\ UNCHANGED ScanRest

\* rebuild_tree_with_manager: get_repo_key of one workspace
GetRepoKey ==
    \E k \in 1..Len(scanned) :
        /\ scanned[k].repo_name # None
        /\ scanned[k].repo_key = None
        /\ scanned' = [scanned EXCEPT
                          ![k].repo_key = get_repo_key_of(scanned[k].repo_name,
                                                          scanned[k].dot_git)]
        /\ UNCHANGED ScanRest

ScanNext == ExtractWorktreeInfo \/ GetRepoKey

SpecScan == ScanInit /\ [][ScanNext]_vars

\* C33: the repo key of a directory whose name contains `__` is the part of the
\* name before its last `__`, so the directory R__x gets the key of, and is
\* grouped with, the repository directory R, whatever R is.
C33_KeyIsBeforeLastSeparator ==
    /\ \A k \in 1..Len(scanned) :
           (scanned[k].repo_key # None /\ rfind(scanned[k].dir_name) # 0) =>
               scanned[k].repo_key =
                   SubSeq(scanned[k].dir_name, 1, rfind(scanned[k].dir_name) - 1)
    /\ (Len(scanned) = 2 /\ scanned[1].repo_key # None /\ scanned[2].repo_key # None) =>
           scanned[1].repo_key = scanned[2].repo_key

\* the directories R and R__x of a name R without `__` and a branch x without
\* `__` are grouped under R
GroupedForPlainNames ==
    (/\ Len(scanned) = 2
     /\ scanned[1].repo_key # None
     /\ scanned[2].repo_key # None
     /\ find(scanned[1].dir_name) = 0
     /\ find(scanned[2].dir_name) = rfind(scanned[2].dir_name)) =>
        /\ scanned[1].repo_key = scanned[1].dir_name
        /\ scanned[2].repo_key = scanned[1].dir_name

\* ---------------------------------------------------------------------------
\* Shutdown: run_app returns, the trigger channel closes, run_logwatch aborts
\* the pollers (main.rs)

MaxClones == 2
MaxPending == 2

\* everything but the runtime
RtRest == <<aggVars, tickVars, chanVars, pollVars, notifyVars, jsonl_lines, jsonl_state,
            kiro_history, kiro_status, treeVars, mux, calls, worktree, scanned>>

\* no trigger sender is left
trigger_closed_never(r) == FALSE

\* every Sender of the trigger channel is dropped: the one run_app owns goes
\* when run_app returns, each clone when its spawned task ends
trigger_closed(r) == r.ui = "exited" /\ r.clones = 0

\* notify_rx is owned by run_app and dropped when it returns
receiver_dropped(r) == r.ui = "exited"

\* the task of poller p is dropped at its next await: its handle was aborted
\* or the runtime is shut down
cancelled(r, p) == r.aborted[p] \/ r.runtime = "dropped"

\* run_tui has spawned run_logwatch and it the two pollers, each of which
\* returns at once when its data source is not available; run_app is looping
ShutdownInit ==
    /\ \E available \in [Pollers -> BOOLEAN] :
           rt = [ui |-> "running", runtime |-> "alive", clones |-> 0, queued |-> 0,
                 logwatch |-> "recv", notify_len |-> 0,
                 poller |-> [p \in Pollers |->
                                [pc |-> IF available[p] THEN "sleep" ELSE "stopped",
                                 pending |-> 0]],
                 aborted |-> [p \in Pollers |-> FALSE],
                 released |-> {}]
    /\ worktree = [pc |-> "none"]
    /\ scanned = <<>>
    /\ mux = [backend |-> None, session_exists |-> FALSE, windows |-> <<>>, at_start |-> <<>>,
              renamed |-> <<>>]
    /\ calls = <<>>
    /\ workspaces = <<>>
    /\ sessions = <<>>
    /\ session_map = <<>>
    /\ sessions_by_workspace = <<>>
    /\ registered_path = <<>>
    /\ last_op = [type |-> "scan_workspaces", external_id |-> None, project_path |-> None,
                  status |-> None, found |-> 0, was_known |-> FALSE]
    /\ panicked = FALSE
    /\ tree_items = <<>>
    /\ jsonl_lines = [read_start |-> 0, lines |-> <<>>]
    /\ jsonl_state = [parsed |-> FALSE]
    /\ kiro_history = <<>>
    /\ kiro_status = [parsed |-> FALSE]
    /\ TreeParked
    /\ TickParked
    /\ ChanParked
    /\ PollParked
    /\ NotifyParked

\* run_app: notify_rx.try_recv() takes an event
UiTryRecv ==
    /\ rt.ui = "running"
    /\ rt.notify_len > 0
    /\ rt' = [rt EXCEPT !.notify_len = @ - 1]
    /\ UNCHANGED RtRest

\* run_app: a register or update event makes it spawn a task that owns a clone
\* of the trigger
UiSpawnTrigger ==
    /\ rt.ui = "running"
    /\ rt.clones < MaxClones
    /\ rt' = [rt EXCEPT !.clones = @ + 1]
    /\ UNCHANGED RtRest

\* run_app returns: its notify_rx and its trigger Sender are dropped
UiExit ==
    /\ rt.ui = "running"
    /\ rt' = [rt EXCEPT !.ui = "exited", !.notify_len = 0]
    /\ UNCHANGED RtRest

\* run_tui returns after run_app: the Runtime is dropped
DropRuntime ==
    /\ rt.ui = "exited"
    /\ rt.runtime = "alive"
    /\ rt' = [rt EXCEPT !.runtime = "dropped"]
    /\ UNCHANGED RtRest

\* the spawned task: sleep 500 ms, trigger_clone.send(path), which waits while
\* the trigger channel (of the capacity of the notify channel) is full, end;
\* or dropped with the runtime; a send after run_logwatch is gone fails and is
\* ignored
TriggerTask ==
    /\ rt.clones > 0
    /\ (rt.runtime = "alive" /\ rt.logwatch = "recv") => rt.queued < ChannelCapacity
    /\ rt' = [rt EXCEPT !.clones = @ - 1,
                        !.queued = IF rt.runtime = "alive" /\ rt.logwatch = "recv"
                                   THEN @ + 1 ELSE @]
    /\ UNCHANGED RtRest

\* run_logwatch: trigger_rx.recv() returns a path, which is ignored
LogwatchRecv ==
    /\ rt.logwatch = "recv"
    /\ rt.runtime = "alive"
    /\ rt.queued > 0
    /\ rt' = [rt EXCEPT !.queued = @ - 1]
    /\ UNCHANGED RtRest

\* run_logwatch: trigger_rx.recv() returns None, then both handles are aborted
LogwatchAbort ==
    /\ rt.logwatch = "recv"
    /\ rt.runtime = "alive"
    /\ rt.queued = 0
    /\ trigger_closed(rt)
    /\ rt' = [rt EXCEPT !.logwatch = "stopped",
                        !.aborted = [p \in Pollers |-> TRUE]]
    /\ UNCHANGED RtRest

\* run_logwatch is dropped with the runtime while it waits in recv
LogwatchDropped ==
    /\ rt.logwatch = "recv"
    /\ rt.runtime = "dropped"
    /\ rt' = [rt EXCEPT !.logwatch = "stopped"]
    /\ UNCHANGED RtRest

\* poller p: tokio::time::sleep(poll_interval) is over
Wake(p) ==
    /\ rt.poller[p].pc = "sleep"
    /\ ~cancelled(rt, p)
    /\ rt' = [rt EXCEPT !.poller[p].pc = "tick"]
    /\ UNCHANGED RtRest

\* poller p: one tick up to its first send: no workspace or no session
\* (continue), or some events to send
PollTick(p) ==
    /\ rt.poller[p].pc = "tick"
    /\ \E n \in 0..MaxPending :
           rt' = [rt EXCEPT !.poller[p] = [pc |-> IF n = 0 THEN "sleep" ELSE "send",
                                           pending |-> n]]
    /\ UNCHANGED RtRest

\* poller p: poll_tx.send(event).await: Err and return when the receiver is
\* dropped, the event queued when there is room, waiting otherwise
PollSend(p) ==
    /\ rt.poller[p].pc = "send"
    /\ IF receiver_dropped(rt)
       THEN rt' = [rt EXCEPT !.poller[p] = [pc |-> "stopped", pending |-> 0],
                             !.released = @ \cup {p}]
       ELSE /\ rt.notify_len < ChannelCapacity
            /\ rt' = [rt EXCEPT !.notify_len = @ + 1,
                                !.poller[p] =
                                    [pc |-> IF rt.poller[p].pending = 1 THEN "sleep" ELSE "send",
                                     pending |-> rt.poller[p].pending - 1]]
    /\ UNCHANGED RtRest

\* poller p: the task, aborted or shut down, is dropped at the await it is in
PollCancelled(p) ==
    /\ rt.poller[p].pc \in {"sleep", "send"}
    /\ cancelled(rt, p)
    /\ rt' = [rt EXCEPT !.poller[p] = [pc |-> "stopped", pending |-> 0]]
    /\ UNCHANGED RtRest

Poll(p) == Wake(p) \/ PollTick(p) \/ PollSend(p) \/ PollCancelled(p)

Logwatch == LogwatchRecv \/ LogwatchAbort \/ LogwatchDropped

ShutdownNext ==
    \/ UiTryRecv
    \/ UiSpawnTrigger
    \/ UiExit
    \/ DropRuntime
    \/ TriggerTask
    \/ LogwatchRecv
    \/ LogwatchAbort
    \/ LogwatchDropped
    \/ \E p \in Pollers : Wake(p)
    \/ \E p \in Pollers : PollTick(p)
    \/ \E p \in Pollers : PollSend(p)
    \/ \E p \in Pollers : PollCancelled(p)

\* the runtime keeps polling every task that can run, and timers fire; nothing
\* is assumed of the user (run_app may never return) or of run_tui's return
SpecShutdown ==
    /\ ShutdownInit
    /\ [][ShutdownNext]_vars
    /\ WF_vars(TriggerTask)
    /\ WF_vars(Logwatch)
    /\ \A p \in Pollers : WF_vars(Poll(p))

AllStopped == \A p \in Pollers : rt.poller[p].pc = "stopped"

\* C34: once run_app has returned, both pollers eventually stop for good (no
\* tick, no event after that), including a poller that was waiting in send.
C34_PollersStopAfterExit == (rt.ui = "exited") ~> []AllStopped

\* run_app has returned and both pollers have stopped while the runtime is
\* still there: one released from its send, the other aborted by run_logwatch
C34_Witness ==
    /\ rt.ui = "exited"
    /\ rt.runtime = "alive"
    /\ AllStopped
    /\ \E p \in Pollers, q \in Pollers :
           /\ p \in rt.released
           /\ q \notin rt.released
           /\ rt.aborted[q]

\* ---------------------------------------------------------------------------
\* The selection and the branch rows across rebuilds (SpecTree)

\* C35: whenever the tree is non-empty the selected index designates an
\* existing row, also after a rebuild that shrinks the tree.
C35_SelectionWithinTree == tree_items # <<>> => HasSelected(AppState)

IsBranchRow(row) == row.kind \in {"Branch", "RemoteBranchGroup"}

\* C38: in the with-branches mode the Branch rows and the RemoteBranchGroup
\* rows are, after a session register event has been handled, those a rebuild
\* with the worktree manager shows: the event changed Session rows only.
C38_BranchRowsSurviveSessionEvent ==
    (ui_op.type = "SessionRegister" /\ list_display_mode = "WithBranches") =>
        SelectSeq(tree_items, IsBranchRow) =
            SelectSeq(rebuild_tree_with_manager(AppState, manager).tree_items, IsBranchRow)

\* ---------------------------------------------------------------------------
\* Session rows and revived sessions (Spec)

SessionEvents ==
    {"SessionRegister", "SessionUpdate", "SessionUnregister", "SessionStatusAnalyzed"}

\* the sessions the Session rows of the tree stand for
ShownSessions ==
    {tree_items[k].session_index :
        k \in {j \in 1..Len(tree_items) : tree_items[j].kind = "Session"}}

\* the sessions that are not Disconnected
ActiveSessions == {i \in 1..Len(sessions) : is_active(sessions[i])}

\* C36: after each handled session event the Session rows (every group being
\* expanded) are exactly the active sessions.
C36_SessionRowsAreActiveSessions ==
    (last_op.type \in SessionEvents /\ ~panicked) => ShownSessions = ActiveSessions

\* C37: a notify status update that follows the unregister of its session
\* leaves the session Disconnected and out of every sessions_for_workspace.
C37_LateUpdateKeepsHidden ==
    [][(/\ last_op.type = "SessionUnregister"
        /\ last_op.was_known
        /\ last_op'.type = "SessionUpdate"
        /\ last_op'.external_id = last_op.external_id) =>
           /\ sessions'[session_map'[last_op.external_id]].status = "Disconnected"
           /\ \A w \in 1..Len(workspaces') :
                  session_map'[last_op.external_id]
                      \notin Range(sessions_for_workspace(AppState', w))]_vars

\* ---------------------------------------------------------------------------
\* ZellijMultiplexer::close_window / ZellijActions::close_tab

WindowThird == "k"

MaxTabs == 3

RECURSIVE TabLists(_)
\* the tab lists of up to n tabs with distinct names
TabLists(n) ==
    IF n = 0 THEN {<<>>}
    ELSE TabLists(n - 1) \cup
         {Append(tabs, name) : tabs \in TabLists(n - 1),
                               name \in {WindowOther, WindowN, WindowThird}}

DistinctTabs(tabs) == \A i, j \in 1..Len(tabs) : tabs[i] = tabs[j] => i = j

\* tabs without the one at position k
RemoveAt(tabs, k) == SubSeq(tabs, 1, k - 1) \o SubSeq(tabs, k + 1, Len(tabs))

\* a Zellij session with some tabs, one of them focused; close_window is about
\* to be called for N
CloseInit ==
    /\ \E tabs \in {t \in TabLists(MaxTabs) : t # <<>> /\ DistinctTabs(t)} :
       \E focus \in 1..Len(tabs) :
           mux = [backend |-> "zellij", tabs |-> tabs, focus |-> tabs[focus],
                  at_start |-> tabs, closed |-> <<>>]
    /\ calls = [pc |-> "idle", result |-> None]
    /\ GitParked
    /\ workspaces = <<>>
    /\ sessions = <<>>
    /\ session_map = <<>>
    /\ sessions_by_workspace = <<>>
    /\ registered_path = <<>>
    /\ last_op = [type |-> "scan_workspaces", external_id |-> None, project_path |-> None,
                  status |-> None, found |-> 0, was_known |-> FALSE]
    /\ panicked = FALSE
    /\ tree_items = <<>>
    /\ jsonl_lines = [read_start |-> 0, lines |-> <<>>]
    /\ jsonl_state = [parsed |-> FALSE]
    /\ kiro_history = <<>>
    /\ kiro_status = [parsed |-> FALSE]
    /\ TreeParked
    /\ TickParked
    /\ ChanParked
    /\ PollParked
    /\ NotifyParked

\* handle_action(CloseWorkspace): close_tab(session, N) is called
CloseBegin ==
    /\ calls.pc = "idle"
    /\ calls' = [calls EXCEPT !.pc = "go_to_tab_name"]
    /\ UNCHANGED <<mux, MuxRest>>

\* go_to_window: `zellij action go-to-tab-name N` focuses the tab N; without
\* such a tab the focus stays, and the command's status, the only thing the
\* code looks at, is success or failure depending on the zellij at hand
GoToTabName ==
    /\ calls.pc = "go_to_tab_name"
    /\ IF \E k \in 1..Len(mux.tabs) : mux.tabs[k] = WindowN
       THEN /\ mux' = [mux EXCEPT !.focus = WindowN]
            /\ calls' = [calls EXCEPT !.pc = "close_tab"]
       ELSE /\ UNCHANGED mux
            /\ \/ calls' = [calls EXCEPT !.pc = "close_tab"]
               \/ calls' = [calls EXCEPT !.pc = "done", !.result = "Err"]
    /\ UNCHANGED MuxRest

\* the user, or another client of the session, focuses a tab
FocusTab ==
    /\ \E k \in 1..Len(mux.tabs) :
           /\ mux.tabs[k] # mux.focus
           /\ mux' = [mux EXCEPT !.focus = mux.tabs[k]]
    /\ UNCHANGED <<calls, MuxRest>>

\* `zellij action close-tab`: the focused tab is closed and a neighbour gets
\* the focus
CloseTab ==
    /\ calls.pc = "close_tab"
    /\ \E k \in 1..Len(mux.tabs) :
           /\ mux.tabs[k] = mux.focus
           /\ LET left == RemoveAt(mux.tabs, k)
              IN  mux' = [mux EXCEPT !.tabs = left,
                                     !.closed = Append(@, mux.focus),
                                     !.focus = IF left = <<>> THEN None
                                               ELSE IF k > 1 THEN left[k - 1] ELSE left[1]]
    /\ calls' = [calls EXCEPT !.pc = "done", !.result = "Ok"]
    /\ UNCHANGED MuxRest

CloseNext == CloseBegin \/ GoToTabName \/ FocusTab \/ CloseTab

SpecClose == CloseInit /\ [][CloseNext]_vars

\* C39: close_window(session, N) closes no tab other than one named N, also
\* without a tab N and when the focus changes between its two commands.
C39_ClosesOnlyTabNamedN ==
    \A k \in 1..Len(mux.closed) : mux.closed[k] = WindowN

\* with a tab N and no focus change between the two commands, the tab closed
\* is N
ClosesNWhenUndisturbed ==
    [][(calls.pc = "go_to_tab_name" /\ calls'.pc = "close_tab"
        /\ (\E k \in 1..Len(mux.tabs) : mux.tabs[k] = WindowN)) => mux'.focus = WindowN]_vars

\* ---------------------------------------------------------------------------
\* ClaudeSession::to_session_status on the parsed tail

\* get_sessions: Option<JsonlSessionState> of a session: the tail is parsed
\* only for an active session, and parse_jsonl_tail returns None for a file it
\* cannot read
ClaudeSession(active, readable, parsed) ==
    [is_active |-> active,
     jsonl_state |-> IF active /\ readable THEN parsed ELSE [parsed |-> FALSE]]

\* to_session_status taking an active session without a running tool or a
\* reply in progress as waiting for the user
to_session_status_inactive_waits(session) ==
    IF session.jsonl_state.parsed
    THEN IF session.is_active
         THEN IF session.jsonl_state.state_detail \in {"UserInput", "Inactive"}
              THEN [status |-> "Waiting", state_detail |-> "UserInput"]
              ELSE [status |-> "Working", state_detail |-> session.jsonl_state.state_detail]
         ELSE [status |-> "Idle", state_detail |-> "Inactive"]
    ELSE IF session.is_active
         THEN [status |-> "Working", state_detail |-> "Thinking"]
         ELSE [status |-> "Idle", state_detail |-> "Inactive"]

\* ClaudeSession::to_session_status: the status and the state detail of the
\* SessionStatus it builds
to_session_status(session) ==
    IF session.jsonl_state.parsed
    THEN IF session.is_active
         THEN IF session.jsonl_state.state_detail = "UserInput"
              THEN [status |-> "Waiting", state_detail |-> "UserInput"]
              ELSE [status |-> "Working", state_detail |-> session.jsonl_state.state_detail]
         ELSE [status |-> "Idle", state_detail |-> "Inactive"]
    ELSE IF session.is_active
         THEN [status |-> "Working", state_detail |-> "Thinking"]
         ELSE [status |-> "Idle", state_detail |-> "Inactive"]

\* the poller builds the status event of a session whose tail was parsed
ToSessionStatus ==
    /\ jsonl_state.parsed
    /\ "event" \notin DOMAIN jsonl_state
    /\ \E active \in BOOLEAN, readable \in BOOLEAN :
           jsonl_state' =
               ("event" :> to_session_status(ClaudeSession(active, readable, jsonl_state)))
                   @@ jsonl_state
    /\ UNCHANGED <<jsonl_lines, kiro_history, kiro_status, treeVars, muxVars, aggVars, tickVars,
                   chanVars, pollVars, notifyVars>>

TailStatusNext == ParseTail \/ ToSessionStatus

SpecTailStatus == TailInit /\ [][TailStatusNext]_vars

\* C40: the state detail of every parsed tail is ExecutingTool, Thinking or
\* Inactive, and every status event built from it has status Working or Idle,
\* never Waiting.
C40_NeverWaitingForInput ==
    /\ jsonl_state.parsed =>
           jsonl_state.state_detail \in {"ExecutingTool", "Thinking", "Inactive"}
    /\ "event" \in DOMAIN jsonl_state =>
           /\ jsonl_state.event.status \in {"Working", "Idle"}
           /\ jsonl_state.event.state_detail \in {"ExecutingTool", "Thinking", "Inactive"}

\* the tail ends with a user's typed text, the case nearest to waiting for
\* input, and the event of the active session is Working / Thinking
C40_Witness ==
    /\ "event" \in DOMAIN jsonl_state
    /\ jsonl_lines.lines # <<>>
    /\ jsonl_lines.lines[Len(jsonl_lines.lines)] = Line("user", TRUE, <<Text>>)
    /\ jsonl_state.state_detail = "Thinking"
    /\ jsonl_state.event = [status |-> "Working", state_detail |-> "Thinking"]
====
